---- MODULE Spec2Model ----
(***************************************************************************)
(* Laser Arcade: the pointer pipeline of src/laser_arcade.                *)
(*                                                                         *)
(*   pointer.py         DwellClickDetector, PointerRouter                  *)
(*   calibration.py     compute_homography, load_homography                *)
(*   calibration_ui.py  CalibrationUI                                      *)
(*   config.py          load_calibration, save_calibration                 *)
(*   test_mode.py       the buttons of TestMode that reload and restart    *)
(*   __main__.py        the main loop                                      *)
(*                                                                         *)
(* Time is the wall clock in milliseconds (time.time() * 1000); it is      *)
(* taken to be non-decreasing, and clock is its latest reading.  Python's  *)
(* None is NoPoint for a point and NoTs for a timestamp.                   *)
(***************************************************************************)
EXTENDS Integers, Sequences, FiniteSets, TLC

(* ------------------------------------------------------------------ *)
(* Program constants                                                    *)
(* ------------------------------------------------------------------ *)
DWELL_MS == 300
DWELL_RADIUS == 10
DEBOUNCE_MS == 350
SCREEN_WIDTH == 1024
SCREEN_HEIGHT == 768

(* ------------------------------------------------------------------ *)
(* Bounds of the model                                                  *)
(* ------------------------------------------------------------------ *)
\* the clock reading when the router is constructed (any reading of a real
\* wall clock is far above the debounce time)
Epoch == 1000
\* how long, in ms, a run is followed
Horizon == 850
MaxTime == Epoch + Horizon
\* the time between one call's reading of the clock and the next call's
Waits == {50, 300}
\* a dwell time a settings file may configure besides the default
LongDwell == 400
DwellChoices == {DWELL_MS, LongDwell}

NoPoint == <<>>
NoTs == -1

\* Screen positions fed to the router: <<6, 8>> is exactly DWELL_RADIUS away
\* from <<0, 0>>, and <<20, 0>> is beyond the radius of both.
Points == {<<0, 0>>, <<6, 8>>, <<20, 0>>}
MousePoints == {<<0, 0>>, <<20, 0>>}
Sources == {"laser", "mouse"}
MouseTypes == {"move", "down", "click"}

VARIABLES
    clock,          \* time.time() * 1000
    dwell_ms,       \* DwellClickDetector.dwell_ms
    anchor,         \* DwellClickDetector.anchor
    anchor_ts,      \* DwellClickDetector.anchor_ts
    last_click_ts,  \* DwellClickDetector.last_click_ts
    last_pos,       \* PointerRouter.last_pos
    source,         \* PointerRouter.source
    call,           \* the latest call made on the router
    emitted,        \* the events on_event received during that call
    obs,            \* what an observer of the calls and events has recorded
    homography_data,     \* main: homography_data (a CalibrationData)
    calibration_ui,      \* main: calibration_ui (index, camera_points, screen_points)
    calibration_active,  \* main: calibration_active
    test_mode,           \* main: test_mode (None, or a TestMode and its homography)
    active_app,          \* main: active_app (None, or the app's name)
    tracker,             \* main: tracker (TRUE while it is a LaserTracker)
    camera_ok,           \* main: camera_ok
    last_laser_point,    \* main: last_laser_point
    running,             \* main: running
    calfile,             \* the calibration file CALIBRATION_FILE
    backups,             \* the backup files beside it: 0 is ".bak", n is ".bak<n>"
    step,                \* what happened in the latest loop iteration or call
    settings,            \* LaserTracker.settings (laser.min_area, laser.max_area, ema_alpha)
    last_point,          \* LaserTracker.last_point
    contours,            \* read: the contours found in the latest frame
    detection            \* read: the LaserDetection returned for it

routervars == <<clock, dwell_ms, anchor, anchor_ts, last_click_ts, last_pos, source>>
recvars == <<call, emitted, obs>>
mainvars == <<homography_data, calibration_ui, calibration_active, test_mode,
              active_app, tracker, camera_ok, last_laser_point, running,
              calfile, backups, step>>
vars == <<clock, dwell_ms, anchor, anchor_ts, last_click_ts, last_pos, source,
          call, emitted, obs,
          homography_data, calibration_ui, calibration_active, test_mode,
          active_app, tracker, camera_ok, last_laser_point, running,
          calfile, backups, step,
          settings, last_point, contours, detection>>
trackervars == <<settings, last_point, contours, detection>>

(* ------------------------------------------------------------------ *)
(* pointer.py                                                           *)
(* ------------------------------------------------------------------ *)
\* the timestamp is given in the clock's milliseconds (the code: time.time(),
\* in seconds)
PointerEvent(type, position, src, timestamp) ==
    [type |-> type, position |-> position, source |-> src, timestamp |-> timestamp]

\* (dx * dx + dy * dy) ** 0.5 > radius_px, on integers
Beyond(point, a, radius_px) ==
    LET dx == point[1] - a[1]
        dy == point[2] - a[2]
    IN  dx * dx + dy * dy > radius_px * radius_px

Detector(a, ats, lcts) == [anchor |-> a, anchor_ts |-> ats, last_click_ts |-> lcts]

\* update without the debounce test
update_NoDebounce(d, dwell, point, now) ==
    IF point = NoPoint
    THEN [d |-> Detector(NoPoint, NoTs, d.last_click_ts), ret |-> "None"]
    ELSE IF d.anchor = NoPoint
    THEN [d |-> Detector(point, now, d.last_click_ts), ret |-> "None"]
    ELSE IF Beyond(point, d.anchor, DWELL_RADIUS)
    THEN [d |-> Detector(point, now, d.last_click_ts), ret |-> "None"]
    ELSE IF now - d.anchor_ts >= dwell
    THEN [d |-> Detector(d.anchor, now, now), ret |-> "click"]
    ELSE [d |-> d, ret |-> "None"]

\* update whose re-anchoring keeps the old anchor time
update_StaleAnchorTs(d, dwell, point, now) ==
    IF point = NoPoint
    THEN [d |-> Detector(NoPoint, NoTs, d.last_click_ts), ret |-> "None"]
    ELSE IF d.anchor = NoPoint
    THEN [d |-> Detector(point, now, d.last_click_ts), ret |-> "None"]
    ELSE IF Beyond(point, d.anchor, DWELL_RADIUS)
    THEN [d |-> Detector(point, d.anchor_ts, d.last_click_ts), ret |-> "None"]
    ELSE IF now - d.anchor_ts >= dwell /\ now - d.last_click_ts >= DEBOUNCE_MS
    THEN [d |-> Detector(d.anchor, now, now), ret |-> "click"]
    ELSE [d |-> d, ret |-> "None"]

\* update that leaves the anchor in place when the point is absent
update_AbsentKeepsAnchor(d, dwell, point, now) ==
    IF point = NoPoint
    THEN [d |-> d, ret |-> "None"]
    ELSE IF d.anchor = NoPoint
    THEN [d |-> Detector(point, now, d.last_click_ts), ret |-> "None"]
    ELSE IF Beyond(point, d.anchor, DWELL_RADIUS)
    THEN [d |-> Detector(point, now, d.last_click_ts), ret |-> "None"]
    ELSE IF now - d.anchor_ts >= dwell /\ now - d.last_click_ts >= DEBOUNCE_MS
    THEN [d |-> Detector(d.anchor, now, now), ret |-> "click"]
    ELSE [d |-> d, ret |-> "None"]

\* update whose click does not restart the dwell
update_ClickKeepsAnchorTs(d, dwell, point, now) ==
    IF point = NoPoint
    THEN [d |-> Detector(NoPoint, NoTs, d.last_click_ts), ret |-> "None"]
    ELSE IF d.anchor = NoPoint
    THEN [d |-> Detector(point, now, d.last_click_ts), ret |-> "None"]
    ELSE IF Beyond(point, d.anchor, DWELL_RADIUS)
    THEN [d |-> Detector(point, now, d.last_click_ts), ret |-> "None"]
    ELSE IF now - d.anchor_ts >= dwell /\ now - d.last_click_ts >= DEBOUNCE_MS
    THEN [d |-> Detector(d.anchor, d.anchor_ts, now), ret |-> "click"]
    ELSE [d |-> d, ret |-> "None"]

\* DwellClickDetector.update: the detector after the call and what it returns
update(d, dwell, point, now) ==
    IF point = NoPoint
    THEN [d |-> Detector(NoPoint, NoTs, d.last_click_ts), ret |-> "None"]
    ELSE IF d.anchor = NoPoint
    THEN [d |-> Detector(point, now, d.last_click_ts), ret |-> "None"]
    ELSE IF Beyond(point, d.anchor, DWELL_RADIUS)
    THEN [d |-> Detector(point, now, d.last_click_ts), ret |-> "None"]
    ELSE IF now - d.anchor_ts >= dwell /\ now - d.last_click_ts >= DEBOUNCE_MS
    THEN [d |-> Detector(d.anchor, now, now), ret |-> "click"]
    ELSE [d |-> d, ret |-> "None"]

\* feed_point handing over the click before the move
FeedPointEvents_ClickFirst(point, src, ret, now) ==
    IF point # NoPoint
    THEN (IF ret = "click" THEN <<PointerEvent("click", point, src, now)>> ELSE <<>>)
         \o <<PointerEvent("move", point, src, now)>>
    ELSE <<>>

\* feed_point announcing a dwell click by a "down" first
FeedPointEvents_DownThenClick(point, src, ret, now) ==
    IF point # NoPoint
    THEN <<PointerEvent("move", point, src, now)>>
         \o (IF ret = "click"
             THEN <<PointerEvent("down", point, src, now),
                    PointerEvent("click", point, src, now)>>
             ELSE <<>>)
    ELSE <<>>

\* the events one feed_point call hands to on_event, in order
FeedPointEvents(point, src, ret, now) ==
    IF point # NoPoint
    THEN <<PointerEvent("move", point, src, now)>>
         \o (IF ret = "click" THEN <<PointerEvent("click", point, src, now)>> ELSE <<>>)
    ELSE <<>>

\* feed_mouse_event tagging the event with the router's current source
FeedMouseEvents_RouterSource(event_type, pos, now) ==
    <<PointerEvent(event_type, pos, source, now)>>

\* the events one feed_mouse_event call hands to on_event
FeedMouseEvents(event_type, pos, now) ==
    <<PointerEvent(event_type, pos, "mouse", now)>>

Router(a, ats, lcts, lp, src) ==
    [anchor |-> a, anchor_ts |-> ats, last_click_ts |-> lcts, last_pos |-> lp,
     source |-> src]

\* PointerRouter.feed_point: the router after the call and the events it hands
\* to on_event, in order
feed_point(r, dwell, point, src, now) ==
    LET d == Detector(r.anchor, r.anchor_ts, r.last_click_ts)
        u == IF point # NoPoint
             THEN update(d, dwell, point, now)
             ELSE update(d, dwell, NoPoint, now)
    IN  [r |-> Router(u.d.anchor, u.d.anchor_ts, u.d.last_click_ts,
                      IF point # NoPoint THEN point ELSE r.last_pos, src),
         events |-> FeedPointEvents(point, src, u.ret, now)]

\* feed_mouse_event that runs the dwell detector on the mouse position
feed_mouse_event_Dwell(r, dwell, event_type, pos, now) ==
    LET u == update(Detector(r.anchor, r.anchor_ts, r.last_click_ts), dwell, pos, now)
    IN  [r |-> Router(u.d.anchor, u.d.anchor_ts, u.d.last_click_ts, pos, r.source),
         events |-> FeedMouseEvents(event_type, pos, now)]

\* PointerRouter.feed_mouse_event
feed_mouse_event(r, dwell, event_type, pos, now) ==
    [r |-> Router(r.anchor, r.anchor_ts, r.last_click_ts, pos, r.source),
     events |-> FeedMouseEvents(event_type, pos, now)]

\* the router held in the variables
TheRouter == Router(anchor, anchor_ts, last_click_ts, last_pos, source)

SetRouter(r) ==
    /\ anchor' = r.anchor
    /\ anchor_ts' = r.anchor_ts
    /\ last_click_ts' = r.last_click_ts
    /\ last_pos' = r.last_pos
    /\ source' = r.source

(* ------------------------------------------------------------------ *)
(* Matrices.  cv2.findHomography is a library call: which matrix it      *)
(* returns, or that it returns none, is an input of the model.           *)
(*   "I"    the identity; float32 holds each of its entries exactly       *)
(*   "G"    [[2, 0, 0.1], [0, 2, 0.1], [0, 0, 1]] in float64; float32     *)
(*          does not hold 0.1 exactly                                     *)
(*   "G32"  G with its entries rounded to float32                         *)
(*   "D"    [[1, 0, 0], [0, 1, 0], [1, 0, -300]]: the third row maps the  *)
(*          pixels of the column x = 300 to w = 0                         *)
(*   "N"    [[NaN, 0, 0], [0, 1, 0], [0, 0, 1]]: json.load reads the      *)
(*          token NaN, np.array keeps it                                  *)
(* ------------------------------------------------------------------ *)
NoMatrix == "None"
Solved == {"I", "G"}

\* np.array(H, dtype=np.float32)
ToFloat32(H) == IF H = "G" THEN "G32" ELSE H

(* ------------------------------------------------------------------ *)
(* config.py: the calibration file                                      *)
(* ------------------------------------------------------------------ *)
FileOf(state, H, points_camera, points_screen) ==
    [state |-> state, homography |-> H,
     camera_points |-> points_camera, screen_points |-> points_screen]

AbsentFile == FileOf("absent", NoMatrix, <<>>, <<>>)
\* a file that json.load rejects with JSONDecodeError, such as one cut short
\* in the middle of a write
CorruptFile == FileOf("corrupt", NoMatrix, <<>>, <<>>)
\* another text that json.load rejects: a saved record with a brace missing
GarbledFile == FileOf("corrupt", "I", <<>>, <<>>)
\* texts that json.load accepts and that are not the record save_calibration
\* writes: a value that is falsy in Python (null, [], {}, 0, ""), and a list
\* with elements such as [1, 2, 3]
FalsyFile == FileOf("falsy", NoMatrix, <<>>, <<>>)
ListFile == FileOf("list", NoMatrix, <<>>, <<>>)

\* the outcomes of save_calibration's file operations: all succeed; mkdir or
\* open raises OSError before the file is touched; open has truncated the
\* file and json.dump's writing raises OSError
SaveOutcomes == {"ok", "open_fails", "write_fails"}

\* save_calibration: the file afterwards and whether the call raised
save_calibration(file, matrix, points_camera, points_screen, io) ==
    IF io = "ok"
    THEN [file |-> FileOf("valid", matrix, points_camera, points_screen), raised |-> FALSE]
    ELSE IF io = "open_fails"
    THEN [file |-> file, raised |-> TRUE]
    ELSE [file |-> CorruptFile, raised |-> TRUE]

\* where the process can be stopped while it is in save_calibration: before
\* open("w") has truncated the file, between the truncation and the end of
\* json.dump's writing, after the file is closed
StopPoints == {"before_open", "while_writing", "after_close"}

\* save_calibration in a process that is stopped at the point "at": the file
\* that is left on disk
save_calibration_stopped(file, matrix, points_camera, points_screen, at) ==
    IF at = "before_open" THEN file
    ELSE IF at = "while_writing" THEN CorruptFile
    ELSE FileOf("valid", matrix, points_camera, points_screen)

\* the backups are pairs <<n, content>>: n = 0 is the name <file>.bak, n > 0
\* the name <file>.bak<n>
BackupNames(bk) == {b[1] : b \in bk}

\* a backup that always takes the name .bak
FreeBackup_AlwaysBak(bk) == 0

\* the first of .bak, .bak1, .bak2, ... that does not exist yet
FreeBackup(bk) ==
    CHOOSE n \in 0..Cardinality(bk) :
        n \notin BackupNames(bk) /\ \A m \in 0..(n - 1) : m \in BackupNames(bk)

\* _backup_corrupt_file; rename_ok: path.rename succeeds (its OSError is
\* caught and logged)
backup_corrupt_file(file, bk, rename_ok) ==
    IF file.state = "absent" \/ ~rename_ok
    THEN [file |-> file, backups |-> bk]
    ELSE [file |-> AbsentFile, backups |-> bk \cup {<<FreeBackup(bk), file>>}]

\* load_calibration: what it returns (AbsentFile stands for None; a file
\* that parses is returned as json.load read it), and the file and the
\* backups afterwards
load_calibration(file, bk, rename_ok) ==
    IF file.state = "absent"
    THEN [ret |-> AbsentFile, file |-> file, backups |-> bk]
    ELSE IF file.state = "corrupt"
    THEN LET b == backup_corrupt_file(file, bk, rename_ok)
         IN  [ret |-> AbsentFile, file |-> b.file, backups |-> b.backups]
    ELSE [ret |-> file, file |-> file, backups |-> bk]

(* ------------------------------------------------------------------ *)
(* calibration.py                                                       *)
(* ------------------------------------------------------------------ *)
build_calib_points(width, height) ==
    << <<0, 0>>, <<width - 1, 0>>, <<width - 1, height - 1>>, <<0, height - 1>>,
       <<width \div 2, height \div 2>> >>

CalibrationData(H, points_camera, points_screen) ==
    [homography |-> H, camera_points |-> points_camera, screen_points |-> points_screen]

NoData == CalibrationData(NoMatrix, <<>>, <<>>)

\* len(np.unique(np.array(points, dtype=np.float32), axis=0)): pixel
\* coordinates are far below 2^24, so float32 keeps distinct points distinct
Unique(points) == Cardinality({points[i] : i \in 1..Len(points)})

\* "screen_points or build_calib_points(...)": None and the empty list are
\* both falsy
OrDefault(screen_points) ==
    IF screen_points = <<>> THEN build_calib_points(SCREEN_WIDTH, SCREEN_HEIGHT)
    ELSE screen_points

\* compute_homography that returns its result although saving has failed
compute_homography_IgnoreSaveError(file, points_camera, points_screen, solve, io) ==
    LET scr == OrDefault(points_screen)
        s == save_calibration(file, solve, points_camera, scr, io)
    IN  IF Len(points_camera) # Len(scr)
        THEN [raised |-> "ValueError", data |-> NoData, file |-> file]
        ELSE IF Unique(points_camera) < 4 \/ Unique(scr) < 4
        THEN [raised |-> "ValueError", data |-> NoData, file |-> file]
        ELSE IF solve = NoMatrix
        THEN [raised |-> "RuntimeError", data |-> NoData, file |-> file]
        ELSE [raised |-> "None", data |-> CalibrationData(solve, points_camera, scr),
              file |-> s.file]

\* compute_homography: the exception it raises ("None": it returns), the
\* CalibrationData it returns and the file afterwards.  solve is what
\* cv2.findHomography ends up with (after the fallback), io how saving goes.
compute_homography(file, points_camera, points_screen, solve, io) ==
    LET scr == OrDefault(points_screen)
        s == save_calibration(file, solve, points_camera, scr, io)
    IN  IF Len(points_camera) # Len(scr)
        THEN [raised |-> "ValueError", data |-> NoData, file |-> file]
        ELSE IF Unique(points_camera) < 4 \/ Unique(scr) < 4
        THEN [raised |-> "ValueError", data |-> NoData, file |-> file]
        ELSE IF solve = NoMatrix
        THEN [raised |-> "RuntimeError", data |-> NoData, file |-> file]
        ELSE IF s.raised
        THEN [raised |-> "OSError", data |-> NoData, file |-> s.file]
        ELSE [raised |-> "None", data |-> CalibrationData(solve, points_camera, scr),
              file |-> s.file]

\* load_homography that takes a record with lists of different lengths for
\* uncalibrated
load_homography_StrictLengths(file, bk, points_screen, rename_ok) ==
    LET scr == OrDefault(points_screen)
        l == load_calibration(file, bk, rename_ok)
        stored == l.ret
        stored_screen == IF stored.screen_points = <<>> THEN scr ELSE stored.screen_points
    IN  IF stored.state \in {"absent", "falsy"}
        THEN [raised |-> "None", data |-> CalibrationData(NoMatrix, <<>>, scr),
              file |-> l.file, backups |-> l.backups]
        ELSE IF stored.state = "list"
        THEN [raised |-> "AttributeError", data |-> NoData,
              file |-> l.file, backups |-> l.backups]
        ELSE IF stored.homography = NoMatrix
                \/ Len(stored.camera_points) # Len(stored_screen)
        THEN [raised |-> "None", data |-> CalibrationData(NoMatrix, <<>>, scr),
              file |-> l.file, backups |-> l.backups]
        ELSE [raised |-> "None",
              data |-> CalibrationData(ToFloat32(stored.homography),
                                       stored.camera_points, stored_screen),
              file |-> l.file, backups |-> l.backups]

\* load_homography: the exception it raises ("None": it returns), the
\* CalibrationData it returns, and the file and the backups afterwards.
\* "not stored" holds for None and for every falsy value; a list has no
\* attribute get.
load_homography(file, bk, points_screen, rename_ok) ==
    LET scr == OrDefault(points_screen)
        l == load_calibration(file, bk, rename_ok)
        stored == l.ret
    IN  IF stored.state \in {"absent", "falsy"}
        THEN [raised |-> "None", data |-> CalibrationData(NoMatrix, <<>>, scr),
              file |-> l.file, backups |-> l.backups]
        ELSE IF stored.state = "list"
        THEN [raised |-> "AttributeError", data |-> NoData,
              file |-> l.file, backups |-> l.backups]
        ELSE IF stored.homography = NoMatrix
        THEN [raised |-> "None", data |-> CalibrationData(NoMatrix, <<>>, scr),
              file |-> l.file, backups |-> l.backups]
        ELSE [raised |-> "None",
              data |-> CalibrationData(ToFloat32(stored.homography),
                                       stored.camera_points,
                                       IF stored.screen_points = <<>>
                                       THEN scr ELSE stored.screen_points),
              file |-> l.file, backups |-> l.backups]

\* the third component of H applied to (x, y, 1): h31 * x + h32 * y + h33
W(H, point) == IF H = "D" THEN point[1] - 300 ELSE 1

\* int(a / b): the quotient cut towards zero
Trunc(a, b) ==
    LET q == (IF a >= 0 THEN a ELSE -a) \div (IF b >= 0 THEN b ELSE -b)
    IN  IF (a >= 0) = (b >= 0) THEN q ELSE -q

\* apply_homography on a pixel with coordinates >= 0: the exception it
\* raises ("None": it returns) and the point it returns.  With G and G32
\* int() cuts the 0.1 off.  cv2.perspectiveTransform divides by w only where
\* |w| is above its epsilon and yields (0, 0) elsewhere; a NaN coordinate
\* makes int() raise ValueError.
apply_homography(H, point) ==
    IF H = "N" THEN [raised |-> "ValueError", point |-> NoPoint]
    ELSE IF H = "I" THEN [raised |-> "None", point |-> point]
    ELSE IF H = "D"
    THEN [raised |-> "None",
          point |-> IF W(H, point) = 0 THEN <<0, 0>>
                    ELSE <<Trunc(point[1], W(H, point)), Trunc(point[2], W(H, point))>>]
    ELSE [raised |-> "None", point |-> <<2 * point[1], 2 * point[2]>>]

(* ------------------------------------------------------------------ *)
(* The world a loop iteration works on: main()'s locals, the objects     *)
(* they hold and the calibration file.  The display is SCREEN_WIDTH x    *)
(* SCREEN_HEIGHT throughout.  trace notes what the handlers did in the   *)
(* iteration, for the observer.                                          *)
(* ------------------------------------------------------------------ *)
NoTrace == [computed |-> "no", reloaded |-> FALSE, collected |-> FALSE,
            restarted |-> FALSE]

NoApp == "None"
\* TestMode.last_detection: None (line 79), or the LaserDetection that
\* set_detection stored, of which draw uses the point
NoLastDetection == [set |-> FALSE, point |-> NoPoint]
NoTestMode == [on |-> FALSE, homography |-> NoMatrix, last_detection |-> NoLastDetection]
TestMode(H) == [on |-> TRUE, homography |-> H, last_detection |-> NoLastDetection]

CalibrationUI(index, points_camera, points_screen) ==
    [index |-> index, camera_points |-> points_camera, screen_points |-> points_screen]

TheWorld ==
    [homography_data |-> homography_data, calibration_ui |-> calibration_ui,
     calibration_active |-> calibration_active, test_mode |-> test_mode,
     active_app |-> active_app, tracker |-> tracker, camera_ok |-> camera_ok,
     last_laser_point |-> last_laser_point, running |-> running,
     calfile |-> calfile, backups |-> backups, trace |-> NoTrace]

SetWorld(w) ==
    /\ homography_data' = w.homography_data
    /\ calibration_ui' = w.calibration_ui
    /\ calibration_active' = w.calibration_active
    /\ test_mode' = w.test_mode
    /\ active_app' = w.active_app
    /\ tracker' = w.tracker
    /\ camera_ok' = w.camera_ok
    /\ last_laser_point' = w.last_laser_point
    /\ running' = w.running
    /\ calfile' = w.calfile
    /\ backups' = w.backups

(* ------------------------------------------------------------------ *)
(* calibration_ui.py                                                    *)
(* ------------------------------------------------------------------ *)
\* CalibrationUI.reset
CalibrationUI_reset(w) ==
    [w EXCEPT !.calibration_ui =
        CalibrationUI(0, <<>>, build_calib_points(SCREEN_WIDTH, SCREEN_HEIGHT))]

\* an on_done that takes over the matrix alone
on_done_MatrixOnly(w, data) ==
    [w EXCEPT !.homography_data.homography = data.homography]

\* main's on_done: homography_data.__dict__.update(data.__dict__)
on_done(w, data) == [w EXCEPT !.homography_data = data]

\* on_done that is also run when the computation has failed
HandleComputed_AdoptAlways(w, c) ==
    CalibrationUI_reset(on_done([w EXCEPT !.calfile = c.file], c.data))

\* an except branch that leaves the points of the failed round in place
HandleComputed_KeepOnFailure(w, c) ==
    IF c.raised = "None"
    THEN CalibrationUI_reset(on_done([w EXCEPT !.calfile = c.file], c.data))
    ELSE [w EXCEPT !.calfile = c.file]

\* the try block of CalibrationUI.handle_pointer, compute_homography having
\* ended as c says
HandleComputed(w, c) ==
    IF c.raised = "None"
    THEN CalibrationUI_reset(on_done([w EXCEPT !.calfile = c.file], c.data))
    ELSE [w EXCEPT !.calfile = c.file,
                   !.calibration_ui = CalibrationUI(0, <<>>, @.screen_points)]

\* a handle_pointer that computes one click after the last marker
CalibrationUI_handle_pointer_OneLate(w, event_type, pos, env) ==
    IF event_type # "click" THEN w
    ELSE LET ui == w.calibration_ui
             pts == Append(ui.camera_points, pos)
             w1 == [w EXCEPT !.calibration_ui = CalibrationUI(ui.index + 1, pts, ui.screen_points),
                             !.trace.collected = TRUE]
         IN  IF ui.index + 1 > Len(ui.screen_points)
             THEN LET c == compute_homography(w.calfile, pts, ui.screen_points,
                                              env.solve, env.io)
                  IN  HandleComputed([w1 EXCEPT !.trace.computed =
                                          IF c.raised = "None" THEN "ok" ELSE c.raised], c)
             ELSE w1

\* CalibrationUI.handle_pointer
CalibrationUI_handle_pointer(w, event_type, pos, env) ==
    IF event_type # "click" THEN w
    ELSE LET ui == w.calibration_ui
             pts == Append(ui.camera_points, pos)
             w1 == [w EXCEPT !.calibration_ui = CalibrationUI(ui.index + 1, pts, ui.screen_points),
                             !.trace.collected = TRUE]
         IN  IF ui.index + 1 >= Len(ui.screen_points)
             THEN LET c == compute_homography(w.calfile, pts, ui.screen_points,
                                              env.solve, env.io)
                  IN  HandleComputed([w1 EXCEPT !.trace.computed =
                                          IF c.raised = "None" THEN "ok" ELSE c.raised], c)
             ELSE w1

(* ------------------------------------------------------------------ *)
(* laser_tracker.py: LaserTracker.read from line 72 on, on the contours *)
(* that cv2.findContours has found in the mask of the frame.  A number  *)
(* that need not be whole (an area, a smoothed coordinate, the          *)
(* confidence) is a fraction <<n, d>> in lowest terms with n >= 0 and   *)
(* d > 0.  The smoothed coordinates are float32 in the code; with the   *)
(* weights 1/2 and 1 and the pixels of the model float32 holds them     *)
(* exactly, with 0.35 the fraction stands for the float32 next to it.   *)
(* ------------------------------------------------------------------ *)
RECURSIVE GCD(_, _)
GCD(a, b) == IF b = 0 THEN a ELSE GCD(b, a % b)

Frac(n, d) == LET g == GCD(n, d) IN <<n \div g, d \div g>>
Whole(n) == <<n, 1>>
FracAdd(a, b) == Frac(a[1] * b[2] + b[1] * a[2], a[2] * b[2])
FracMul(a, b) == Frac(a[1] * b[1], a[2] * b[2])
FracLess(a, b) == a[1] * b[2] < b[1] * a[2]
FracMin(a, b) == IF FracLess(b, a) THEN b ELSE a
\* 1 - a, for a in [0, 1]
Complement(a) == Frac(a[2] - a[1], a[2])

\* constants.py: EMA_ALPHA = 0.35
EMA_ALPHA == <<7, 20>>

\* config.py: the fields of Settings that read uses, with their defaults
DefaultSettings ==
    [laser |-> [min_area |-> 12, max_area |-> 4000], ema_alpha |-> <<7, 20>>]

\* a contour c of the mask: area is cv2.contourArea(c), which is also
\* cv2.moments(c)["m00"] (both are the polygon's area by Green's formula),
\* and centroid is (int(m10 / m00), int(m01 / m00)); a contour with m00 = 0
\* has none (NoPoint)
Contour(area, centroid) == [area |-> area, centroid |-> centroid]

\* a loop that takes the later of two contours of the same area
RECURSIVE Scan_LaterOfEqual(_, _, _, _)
Scan_LaterOfEqual(cs, laser_cfg, best, best_area) ==
    IF cs = <<>> THEN [best |-> best, best_area |-> best_area]
    ELSE LET c == Head(cs)
         IN  IF \/ FracLess(c.area, Whole(laser_cfg.min_area))
                \/ FracLess(Whole(laser_cfg.max_area), c.area)
             THEN Scan_LaterOfEqual(Tail(cs), laser_cfg, best, best_area)
             ELSE IF ~FracLess(c.area, best_area)
             THEN Scan_LaterOfEqual(Tail(cs), laser_cfg,
                                    IF c.area[1] # 0 THEN c.centroid ELSE best, c.area)
             ELSE Scan_LaterOfEqual(Tail(cs), laser_cfg, best, best_area)

\* a loop that raises best_area but keeps a centroid it already has
RECURSIVE Scan_KeepsEarlierCentroid(_, _, _, _)
Scan_KeepsEarlierCentroid(cs, laser_cfg, best, best_area) ==
    IF cs = <<>> THEN [best |-> best, best_area |-> best_area]
    ELSE LET c == Head(cs)
         IN  IF \/ FracLess(c.area, Whole(laser_cfg.min_area))
                \/ FracLess(Whole(laser_cfg.max_area), c.area)
             THEN Scan_KeepsEarlierCentroid(Tail(cs), laser_cfg, best, best_area)
             ELSE IF FracLess(best_area, c.area)
             THEN Scan_KeepsEarlierCentroid(Tail(cs), laser_cfg,
                                            IF best = NoPoint THEN c.centroid ELSE best,
                                            c.area)
             ELSE Scan_KeepsEarlierCentroid(Tail(cs), laser_cfg, best, best_area)

\* lines 73-85: best and best_area after the loop over the contours that
\* are left, started from the values given
RECURSIVE Scan(_, _, _, _)
Scan(cs, laser_cfg, best, best_area) ==
    IF cs = <<>> THEN [best |-> best, best_area |-> best_area]
    ELSE LET c == Head(cs)
         IN  IF \/ FracLess(c.area, Whole(laser_cfg.min_area))
                \/ FracLess(Whole(laser_cfg.max_area), c.area)
             THEN Scan(Tail(cs), laser_cfg, best, best_area)
             ELSE IF FracLess(best_area, c.area)
             THEN Scan(Tail(cs), laser_cfg,
                       IF c.area[1] # 0 THEN c.centroid ELSE best, c.area)
             ELSE Scan(Tail(cs), laser_cfg, best, best_area)

\* a blend that weighs the previous state with alpha
Blend_SwappedWeights(alpha, point_arr, last) ==
    [i \in 1..2 |-> FracAdd(FracMul(Complement(alpha), point_arr[i]),
                            FracMul(alpha, last[i]))]

\* line 94: alpha * point_arr + (1 - alpha) * self.last_point
Blend(alpha, point_arr, last) ==
    [i \in 1..2 |-> FracAdd(FracMul(alpha, point_arr[i]),
                            FracMul(Complement(alpha), last[i]))]

\* lines 87-94: smoothed, NoPoint for None
Smoothed(best, last, ema_alpha) ==
    IF best = NoPoint THEN NoPoint
    ELSE LET point_arr == <<Whole(best[1]), Whole(best[2])>>
         IN  IF last = NoPoint THEN point_arr
             ELSE LET alpha == IF ema_alpha[1] = 0 THEN EMA_ALPHA ELSE ema_alpha
                  IN  Blend(alpha, point_arr, last)

\* a confidence that is not cut off at 1
confidence_Uncapped(best_area, min_area) ==
    FracMul(best_area, <<1, IF min_area > 1 THEN min_area ELSE 1>>)

\* line 97: min(1.0, best_area / max(laser_cfg.min_area, 1))
confidence(best_area, min_area) ==
    FracMin(Whole(1),
            FracMul(best_area, <<1, IF min_area > 1 THEN min_area ELSE 1>>))

\* line 106: tuple(int(x) for x in smoothed) if smoothed is not None else None
ReportedPoint(smoothed) ==
    IF smoothed = NoPoint THEN NoPoint
    ELSE <<Trunc(smoothed[1][1], smoothed[1][2]), Trunc(smoothed[2][1], smoothed[2][2])>>

\* what read returns; frame_ts and mask_preview are left out
LaserDetection(point, area, conf) == [point |-> point, area |-> area, confidence |-> conf]

\* a read that forgets the smoothed point when the frame shows no blob
read_ResetOnMiss(cs, cfg, last) ==
    LET s == Scan(cs, cfg.laser, NoPoint, Whole(0))
        smoothed == Smoothed(s.best, last, cfg.ema_alpha)
    IN  [detection |-> LaserDetection(ReportedPoint(smoothed), s.best_area,
                                      confidence(s.best_area, cfg.laser.min_area)),
         last_point |-> smoothed]

\* LaserTracker.read, lines 72-111, on a frame that was read: the detection
\* it returns and self.last_point afterwards
read(cs, cfg, last) ==
    LET s == Scan(cs, cfg.laser, NoPoint, Whole(0))
        smoothed == Smoothed(s.best, last, cfg.ema_alpha)
    IN  [detection |-> LaserDetection(ReportedPoint(smoothed), s.best_area,
                                      confidence(s.best_area, cfg.laser.min_area)),
         last_point |-> IF s.best # NoPoint THEN smoothed ELSE last]

\* a tracker that has read no frame
NoDetection == LaserDetection(NoPoint, Whole(0), Whole(0))

\* the tracker of a run in which read is not followed
TrackerIdle ==
    /\ settings = DefaultSettings
    /\ last_point = NoPoint
    /\ contours = <<>>
    /\ detection = NoDetection

(* ------------------------------------------------------------------ *)
(* ui.py, launcher.py                                                   *)
(* ------------------------------------------------------------------ *)
\* list(APP_CLASSES.keys()) + ["Kalibrierung", "Testmodus", "Beenden"]
AppNames == {"Dosenschiessen", "Moorhuhn", "Zielscheibe", "Reaktion", "Malen"}
Labels == <<"Dosenschiessen", "Moorhuhn", "Zielscheibe", "Reaktion", "Malen",
            "Kalibrierung", "Testmodus", "Beenden">>

\* layout_grid(screen, labels, columns=2): the rectangle of the idx-th label
\* (counted from 0) as <<x, y, width, height>>
layout_grid(idx, width, height) ==
    LET columns == 2
        padding == 20
        button_height == 120
        rows == (Len(Labels) + columns - 1) \div columns
        button_width == (width - (columns + 1) * padding) \div columns
        total_height == rows * button_height + (rows + 1) * padding
        top == (height - total_height) \div 2
        row == idx \div columns
        col == idx % columns
    IN  <<padding + col * (button_width + padding),
          top + row * (button_height + padding), button_width, button_height>>

\* Button.contains: pygame.Rect.collidepoint
contains(rect, pos) ==
    /\ rect[1] <= pos[1] /\ pos[1] < rect[1] + rect[3]
    /\ rect[2] <= pos[2] /\ pos[2] < rect[2] + rect[4]

\* main's start_app
start_app(w, label) ==
    IF label = "__calibrate__"
    THEN CalibrationUI_reset([w EXCEPT !.calibration_active = TRUE,
                                       !.test_mode = NoTestMode,
                                       !.active_app = NoApp])
    ELSE IF label = "__test__"
    THEN [w EXCEPT !.calibration_active = FALSE,
                   !.active_app = NoApp,
                   !.test_mode = TestMode(w.homography_data.homography)]
    ELSE [w EXCEPT !.calibration_active = FALSE,
                   !.test_mode = NoTestMode,
                   !.active_app = label]

\* Launcher._handle_click; main hands the launcher no on_quit, and "Beenden"
\* is left without effect here
Launcher_handle_click(w, label) ==
    IF label \in AppNames THEN start_app(w, label)
    ELSE IF label = "Kalibrierung" THEN start_app(w, "__calibrate__")
    ELSE IF label = "Testmodus" THEN start_app(w, "__test__")
    ELSE w

\* Launcher.handle_pointer: the buttons do not overlap, so at most one
\* contains pos
Launcher_handle_pointer(w, event_type, pos) ==
    LET hit == {i \in 1..Len(Labels) :
                    contains(layout_grid(i - 1, SCREEN_WIDTH, SCREEN_HEIGHT), pos)}
    IN  IF event_type = "click" /\ hit # {}
        THEN Launcher_handle_click(w, Labels[CHOOSE i \in hit : TRUE])
        ELSE w

(* ------------------------------------------------------------------ *)
(* test_mode.py.  Where the panel's buttons lie depends on the fonts and *)
(* the cameras found; PosReload is a position inside the button          *)
(* "Uebernehmen/Neu laden", PosApply one inside the button               *)
(* "Uebernehmen/Speichern", and no other position of the model lies in   *)
(* any button of the panel.                                              *)
(* ------------------------------------------------------------------ *)
PosReload == <<800, 690>>
PosApply == <<800, 230>>

\* main's restart_tracker: a new LaserTracker is bound to tracker before
\* start() is called, so tracker holds an object also when start() raises;
\* camera_ok tells whether the capture is open
restart_tracker(w, start_ok) ==
    [w EXCEPT !.tracker = TRUE, !.camera_ok = start_ok, !.trace.restarted = TRUE]

\* main's reinitialize_display, the display keeping its size and the rename
\* of a corrupt file succeeding; an exception of load_homography ends the
\* function at line 140 and is caught in TestMode._apply_resolution
reinitialize_display(w) ==
    LET l == load_homography(w.calfile, w.backups,
                             build_calib_points(SCREEN_WIDTH, SCREEN_HEIGHT), TRUE)
    IN  IF l.raised # "None"
        THEN [w EXCEPT !.calfile = l.file, !.backups = l.backups]
        ELSE CalibrationUI_reset(
                 [w EXCEPT !.homography_data = l.data,
                           !.calfile = l.file,
                           !.backups = l.backups,
                           !.test_mode = IF @.on
                                        THEN [@ EXCEPT !.homography = l.data.homography]
                                        ELSE @,
                           !.trace.reloaded = TRUE])

\* TestMode.handle_pointer: a click on the reload button runs
\* _apply_resolution, which calls on_resolution_change; a click on the apply
\* button runs _apply_selection, which (the selected camera being listed as
\* available) calls on_camera_change
TestMode_handle_pointer(w, event_type, pos, env) ==
    IF event_type = "click" /\ pos = PosReload
    THEN reinitialize_display(w)
    ELSE IF event_type = "click" /\ pos = PosApply
    THEN restart_tracker(w, env.start)
    ELSE w

(* ------------------------------------------------------------------ *)
(* __main__.py                                                          *)
(* ------------------------------------------------------------------ *)
\* line 176 of pointer_handler, the value of the local "target" that the
\* function computes and does not use:
\* (active_app or test_mode or calibration_ui) if calibration_active
\* else launcher
ReceivingSurface_Target(w) ==
    IF w.calibration_active
    THEN IF w.active_app # NoApp THEN "active_app"
         ELSE IF w.test_mode.on THEN "test_mode"
         ELSE "calibration_ui"
    ELSE "launcher"

\* lines 177-184 of pointer_handler: the object whose handle_pointer is
\* called
ReceivingSurface(w) ==
    IF w.calibration_active THEN "calibration_ui"
    ELSE IF w.test_mode.on THEN "test_mode"
    ELSE IF w.active_app # NoApp THEN "active_app"
    ELSE "launcher"

\* lines 259-269 of main: the object whose draw is called
DrawnSurface(w) ==
    IF w.calibration_active THEN "calibration_ui"
    ELSE IF w.test_mode.on THEN "test_mode"
    ELSE IF w.active_app # NoApp THEN "active_app"
    ELSE "launcher"

\* main's pointer_handler; what an app does with the event stays inside the
\* app
pointer_handler(w, evt, env) ==
    LET target == ReceivingSurface(w)
    IN  IF target = "calibration_ui"
        THEN CalibrationUI_handle_pointer(w, evt.type, evt.position, env)
        ELSE IF target = "test_mode"
        THEN TestMode_handle_pointer(w, evt.type, evt.position, env)
        ELSE IF target = "active_app"
        THEN w
        ELSE Launcher_handle_pointer(w, evt.type, evt.position)

\* the router calling on_event for each of the events of one feed, in order
RECURSIVE Deliver(_, _, _)
Deliver(w, events, env) ==
    IF events = <<>> THEN w
    ELSE Deliver(pointer_handler(w, Head(events), env), Tail(events), env)

(* ------------------------------------------------------------------ *)
(* The observer: what a test harness around one router would note down  *)
(* from the calls it makes and the events its callback receives.        *)
(* ------------------------------------------------------------------ *)
NoCall == [op |-> "none", arg |-> NoPoint, tag |-> "none"]
Unfed == <<-1>>
Mixed == <<-2>>

HasClick(evs) == \E i \in 1..Len(evs) : evs[i].type = "click"

\* Euclidean distance of p and q greater than r
Farther(p, q, r) ==
    (p[1] - q[1]) * (p[1] - q[1]) + (p[2] - q[2]) * (p[2] - q[2]) > r * r

ObsInit ==
    [prev       |-> Unfed,    \* argument of the latest feed_point call
     only       |-> Unfed,    \* the one point every feed_point call so far carried
     first_ts   |-> NoTs,     \* time of the first feed_point call
     prev_ts    |-> NoTs,     \* time of the latest feed_point call
     clicks     |-> <<>>,     \* times of the first two clicks received
     all_far    |-> TRUE,     \* every fed point was beyond the radius of the anchor
     last_click |-> NoTs,     \* time of the latest click received
     held       |-> FALSE,    \* since that click every fed point stayed in the radius
     ref        |-> Detector(NoPoint, NoTs, 0),  \* a detector fed by feed_point alone
     ref_ret    |-> "None"]

ObserveFeed(point, evs, now) ==
    LET only2 == IF point = NoPoint THEN Mixed
                 ELSE IF obs.only = Unfed THEN point
                 ELSE IF obs.only = point THEN point
                 ELSE Mixed
        far == point # NoPoint /\ anchor # NoPoint /\ Farther(point, anchor, DWELL_RADIUS)
        r == update(obs.ref, dwell_ms, point, now)
    IN  [prev       |-> point,
         only       |-> only2,
         first_ts   |-> IF only2 = Mixed THEN NoTs
                        ELSE IF obs.only = Unfed THEN now ELSE obs.first_ts,
         prev_ts    |-> IF only2 = Mixed THEN NoTs ELSE now,
         clicks     |-> IF only2 = Mixed THEN <<>>
                        ELSE IF HasClick(evs) /\ Len(obs.clicks) < 2
                        THEN Append(obs.clicks, now)
                        ELSE obs.clicks,
         all_far    |-> obs.all_far /\ point # NoPoint /\ (anchor = NoPoint \/ far),
         last_click |-> IF HasClick(evs) THEN now ELSE obs.last_click,
         held       |-> IF HasClick(evs) THEN TRUE
                        ELSE obs.held /\ point # NoPoint /\ ~far,
         ref        |-> r.d,
         ref_ret    |-> r.ret]

ObserveMouse(evs) == obs

(* ------------------------------------------------------------------ *)
(* One router on its own, driven by a caller                            *)
(* ------------------------------------------------------------------ *)
\* the variables of the main loop, for a router that is used without it
NoFrame == [kind |-> "none", point |-> NoPoint]
NoEvent == [kind |-> "none", pos |-> NoPoint]
\* what tracker.read() returns: a detection with a point or with None
Detection(point) == [kind |-> "detection", point |-> point]
NoStep ==
    [op |-> "none", frame |-> NoFrame, fed |-> NoPoint,
     click |-> FALSE, computed |-> "no", reloaded |-> FALSE, collected |-> FALSE,
     restarted |-> FALSE, before |-> AbsentFile, escaped |-> "None"]

MainIdle ==
    /\ homography_data = NoData
    /\ calibration_ui = CalibrationUI(0, <<>>, <<>>)
    /\ calibration_active = FALSE
    /\ test_mode = NoTestMode
    /\ active_app = NoApp
    /\ tracker = FALSE
    /\ camera_ok = FALSE
    /\ last_laser_point = NoPoint
    /\ running = FALSE
    /\ calfile = AbsentFile
    /\ backups = {}
    /\ step = NoStep
    /\ TrackerIdle

InitRouter ==
    /\ clock = Epoch
    /\ dwell_ms \in DwellChoices
    /\ anchor = NoPoint
    /\ anchor_ts = NoTs
    /\ last_click_ts = 0
    /\ last_pos = NoPoint
    /\ source = "laser"
    /\ call = NoCall
    /\ emitted = <<>>
    /\ obs = ObsInit
    /\ MainIdle

FeedPointStep(point, src, d) ==
    \E res \in {feed_point(TheRouter, dwell_ms, point, src, clock + d)} :
        /\ clock + d <= MaxTime
        /\ clock' = clock + d
        /\ SetRouter(res.r)
        /\ call' = [op |-> "feed_point", arg |-> point, tag |-> src]
        /\ emitted' = res.events
        /\ obs' = ObserveFeed(point, res.events, clock + d)
        /\ UNCHANGED dwell_ms
        /\ UNCHANGED mainvars
        /\ UNCHANGED trackervars

FeedMouseStep(event_type, pos, d) ==
    \E res \in {feed_mouse_event(TheRouter, dwell_ms, event_type, pos, clock + d)} :
        /\ clock + d <= MaxTime
        /\ clock' = clock + d
        /\ SetRouter(res.r)
        /\ call' = [op |-> "feed_mouse_event", arg |-> pos, tag |-> event_type]
        /\ emitted' = res.events
        /\ obs' = ObserveMouse(res.events)
        /\ UNCHANGED dwell_ms
        /\ UNCHANGED mainvars
        /\ UNCHANGED trackervars

FeedPoint ==
    \E point \in Points \cup {NoPoint}, src \in Sources, d \in Waits :
        FeedPointStep(point, src, d)

FeedMouse ==
    \E event_type \in MouseTypes, pos \in MousePoints, d \in Waits :
        FeedMouseStep(event_type, pos, d)

NextRouter == FeedPoint \/ FeedMouse

SpecRouter == InitRouter /\ [][NextRouter]_vars

(* ================================================================== *)
(* Properties of the router.  Every call reads the clock later than the  *)
(* call before it, so every call is a step that changes the state; call' *)
(* names the call of the step and clock' is the time the call read.      *)
(* ================================================================== *)
Max(a, b) == IF a >= b THEN a ELSE b

FedPoint == call.op = "feed_point"
FedPresent == call.op = "feed_point" /\ call.arg # NoPoint
FedAbsent == call.op = "feed_point" /\ call.arg = NoPoint
FedMouseEvent == call.op = "feed_mouse_event"

\* C1: every call hands its events to the callback inside the call: feed_point
\* with a present point delivers <<move>> or <<move, click>>, both carrying the
\* call's position and source; feed_point with an absent point delivers
\* nothing; feed_mouse_event delivers exactly one event.
C1_EventsPerCall ==
    /\ FedAbsent => emitted = <<>>
    /\ FedPresent =>
           /\ Len(emitted) \in {1, 2}
           /\ emitted[1].type = "move"
           /\ Len(emitted) = 2 => emitted[2].type = "click"
           /\ \A i \in 1..Len(emitted) :
                  /\ emitted[i].position = call.arg
                  /\ emitted[i].source = call.tag
    /\ FedMouseEvent => Len(emitted) = 1

\* a feed_point call has delivered a move followed by a click
C1_Witness ==
    /\ FedPresent
    /\ Len(emitted) = 2
    /\ emitted[1].type = "move"
    /\ emitted[2].type = "click"

\* C2: with dwell 300 ms, radius 10 px and debounce 350 ms, a router that is fed
\* one and the same point over and over clicks first on the first sample taken
\* 300 ms or more after the first one (which set the anchor), on no earlier
\* sample, and its second click comes no sooner than 350 ms after the first.
C2_DwellTiming ==
    (dwell_ms = DWELL_MS /\ obs.only \in Points) =>
        /\ obs.clicks = <<>> => obs.prev_ts - obs.first_ts < 300
        /\ Len(obs.clicks) >= 1 => obs.clicks[1] - obs.first_ts >= 300
        /\ Len(obs.clicks) >= 2 => obs.clicks[2] - obs.clicks[1] >= 350

\* the stationary point has clicked at 300 ms and again 350 ms later
C2_Witness ==
    /\ dwell_ms = DWELL_MS
    /\ obs.only \in Points
    /\ Len(obs.clicks) = 2
    /\ obs.clicks[1] - obs.first_ts = 300
    /\ obs.clicks[2] - obs.clicks[1] = 350

\* C4: a fed point beyond the radius of the current anchor only re-anchors
\* (anchor = the point, anchor_ts = now) and delivers no click; while every
\* fed point is beyond the radius of the anchor of its moment, no click is
\* ever delivered.
C4_MovementCancels ==
    [][ FedPresent' =>
            /\ (anchor # NoPoint /\ Farther(call'.arg, anchor, DWELL_RADIUS)) =>
                   /\ anchor' = call'.arg
                   /\ anchor_ts' = clock'
                   /\ last_click_ts' = last_click_ts
                   /\ ~HasClick(emitted')
            /\ obs'.all_far => obs'.last_click = NoTs
      ]_vars

\* different points, each beyond the radius of the last, have been fed for
\* longer than dwell plus debounce
C4_Witness ==
    /\ FedPresent
    /\ obs.all_far
    /\ obs.only = Mixed
    /\ anchor = call.arg
    /\ anchor_ts = clock
    /\ clock - Epoch >= dwell_ms + DEBOUNCE_MS

\* C5: feed_point with an absent point delivers no event and empties anchor
\* and anchor_ts; the next present point only sets a fresh anchor and delivers
\* no click.
C5_AbsentClears ==
    [][ /\ FedAbsent' =>
               /\ emitted' = <<>>
               /\ anchor' = NoPoint
               /\ anchor_ts' = NoTs
        /\ (FedPresent' /\ obs.prev = NoPoint) =>
               /\ ~HasClick(emitted')
               /\ anchor' = call'.arg
               /\ anchor_ts' = clock'
      ]_vars

\* an absent point has been fed to a router that had clicked before
C5_Witness ==
    /\ FedAbsent
    /\ obs.last_click # NoTs
    /\ anchor = NoPoint
    /\ anchor_ts = NoTs
    /\ emitted = <<>>

\* C6: feed_mouse_event(type, pos) delivers exactly one event, of that type, at
\* that position, with source "mouse".
C6_MousePassThrough ==
    FedMouseEvent =>
        /\ Len(emitted) = 1
        /\ emitted[1].type = call.tag
        /\ emitted[1].position = call.arg
        /\ emitted[1].source = "mouse"

\* a mouse event has been delivered by a router whose latest feed_point had
\* another source and position
C6_Witness ==
    /\ FedMouseEvent
    /\ call.tag = "down"
    /\ Len(emitted) = 1
    /\ source = "laser"
    /\ anchor \in Points
    /\ anchor # call.arg

\* C7: feed_mouse_event leaves anchor, anchor_ts and last_click_ts unchanged,
\* and feed_point delivers a click exactly when a detector that was fed the
\* same points at the same times, and no mouse events, returns one.
C7_MouseLeavesDwell ==
    [][ /\ FedMouseEvent' => UNCHANGED <<anchor, anchor_ts, last_click_ts>>
        /\ FedPoint' =>
               /\ HasClick(emitted') <=> obs'.ref_ret = "click"
               /\ obs'.ref = Detector(anchor', anchor_ts', last_click_ts')
      ]_vars

\* a mouse event at another position has been fed while a dwell was due
C7_Witness ==
    /\ FedMouseEvent
    /\ anchor \in Points
    /\ Farther(call.arg, anchor, DWELL_RADIUS)
    /\ clock - anchor_ts >= dwell_ms
    /\ clock - last_click_ts >= DEBOUNCE_MS

\* C8: a click sets last_click_ts and anchor_ts to its time and keeps the
\* anchor; while the fed points stay within the radius after a click, the next
\* click comes on the first sample at which both the dwell and the debounce
\* time have passed since that click; two consecutive clicks are at least
\* max(dwell, debounce) apart.
C8_AutoRepeat ==
    [][ FedPresent' =>
            /\ HasClick(emitted') =>
                   /\ last_click_ts' = clock'
                   /\ anchor_ts' = clock'
                   /\ anchor' = anchor
            /\ (HasClick(emitted') /\ obs.last_click # NoTs) =>
                   clock' - obs.last_click >= Max(dwell_ms, DEBOUNCE_MS)
            /\ (obs.held /\ ~Farther(call'.arg, anchor, DWELL_RADIUS)) =>
                   (HasClick(emitted') <=>
                        /\ clock' - obs.last_click >= dwell_ms
                        /\ clock' - obs.last_click >= DEBOUNCE_MS)
      ]_vars

\* a held pointer has clicked twice, the dwell time (longer than the debounce)
\* apart
C8_Witness ==
    /\ dwell_ms > DEBOUNCE_MS
    /\ obs.only \in Points
    /\ obs.held
    /\ Len(obs.clicks) = 2
    /\ obs.clicks[2] = obs.last_click
    /\ obs.clicks[2] - obs.clicks[1] = dwell_ms

(* ================================================================== *)
(* compute_homography on its own, called on lists of every shape         *)
(* ================================================================== *)
Markers == build_calib_points(SCREEN_WIDTH, SCREEN_HEIGHT)

\* the longest list handed in, and the most distinct points in one
MaxList == 6
MaxUnique == 5

\* the i-th of the points the lists are made of: the five markers first
Pool(i) == IF i <= Len(Markers) THEN Markers[i] ELSE <<i, i>>

\* the list of n points whose first u are pairwise distinct, the others
\* repeating the u-th
ListOf(n, u) == [i \in 1..n |-> Pool(IF i <= u THEN i ELSE u)]

InputLists ==
    {<<>>} \cup {ListOf(n, u) : n \in 1..MaxList, u \in 1..MaxUnique}

\* the calibration file as a run may find it: none, one that does not parse,
\* or one an earlier compute_homography has saved
InitFiles ==
    {AbsentFile, CorruptFile,
     FileOf("valid", "I", Markers, Markers),
     FileOf("valid", "G", ListOf(5, 5), Markers)}

InitCompute ==
    /\ clock = Epoch
    /\ dwell_ms = DWELL_MS
    /\ anchor = NoPoint
    /\ anchor_ts = NoTs
    /\ last_click_ts = 0
    /\ last_pos = NoPoint
    /\ source = "laser"
    /\ call = NoCall
    /\ emitted = <<>>
    /\ obs = ObsInit
    /\ homography_data = NoData
    /\ \E cam \in InputLists, scr \in InputLists :
           calibration_ui = CalibrationUI(0, cam, scr)
    /\ calibration_active = FALSE
    /\ test_mode = NoTestMode
    /\ active_app = NoApp
    /\ tracker = FALSE
    /\ camera_ok = FALSE
    /\ last_laser_point = NoPoint
    /\ running = FALSE
    /\ calfile \in InitFiles
    /\ backups = {}
    /\ step = NoStep
    /\ TrackerIdle

\* one call compute_homography(camera_points, screen_points) on the lists
\* held in calibration_ui; homography_data keeps what the call returned
Compute ==
    \E solve \in Solved \cup {NoMatrix}, io \in SaveOutcomes :
        \E c \in {compute_homography(calfile, calibration_ui.camera_points,
                                     calibration_ui.screen_points, solve, io)} :
            /\ calfile' = c.file
            /\ homography_data' = c.data
            /\ step' = [NoStep EXCEPT !.op = "compute",
                                      !.computed = IF c.raised = "None" THEN "ok"
                                                   ELSE c.raised,
                                      !.before = calfile]
            /\ UNCHANGED <<routervars, recvars, calibration_ui, calibration_active,
                           test_mode, active_app, tracker, camera_ok,
                           last_laser_point, running, backups, trackervars>>

NextCompute == Compute

SpecCompute == InitCompute /\ [][NextCompute]_vars

\* C10: compute_homography called with lists of different lengths, or with
\* fewer than 4 pairwise distinct points on the camera side or on the screen
\* side, raises and leaves the calibration file as it was before the call.
C10_DegenerateInputFails ==
    (/\ step.op = "compute"
     /\ \/ Len(calibration_ui.camera_points) # Len(calibration_ui.screen_points)
        \/ Unique(calibration_ui.camera_points) < 4
        \/ Unique(calibration_ui.screen_points) < 4)
    => /\ step.computed # "ok"
       /\ calfile = step.before

(* ================================================================== *)
(* The calibration file over several sessions: load_homography at the    *)
(* start of a session, compute_homography during it, the process being   *)
(* stopped while it saves, apply_homography with the matrix that was     *)
(* loaded or computed, and files put in place from outside.  running     *)
(* tells whether a session is going on.                                  *)
(* ================================================================== *)
\* the most backups a run piles up
MaxBackups == 3

\* the calibration file as the start of a session may find it
FoundFiles ==
    {AbsentFile, CorruptFile, GarbledFile, FalsyFile, ListFile,
     FileOf("valid", NoMatrix, <<>>, <<>>),
     FileOf("valid", "I", Markers, Markers),
     FileOf("valid", "G", ListOf(5, 5), Markers),
     FileOf("valid", "I", ListOf(3, 3), Markers),
     FileOf("valid", "D", Markers, Markers),
     FileOf("valid", "N", Markers, Markers)}

\* camera pixels handed to apply_homography; two lie in the column x = 300
StorePoints == {<<0, 0>>, <<300, 0>>, <<300, 200>>, <<600, 400>>, <<100, 150>>}

\* the camera lists of a calibration round: five distinct points, or five
\* points of which three are distinct
StoreLists == {Markers, ListOf(5, 3)}

InitStore ==
    /\ clock = Epoch
    /\ dwell_ms = DWELL_MS
    /\ anchor = NoPoint
    /\ anchor_ts = NoTs
    /\ last_click_ts = 0
    /\ last_pos = NoPoint
    /\ source = "laser"
    /\ call = NoCall
    /\ emitted = <<>>
    /\ obs = ObsInit
    /\ homography_data = NoData
    /\ calibration_ui = CalibrationUI(0, <<>>, Markers)
    /\ calibration_active = FALSE
    /\ test_mode = NoTestMode
    /\ active_app = NoApp
    /\ tracker = FALSE
    /\ camera_ok = FALSE
    /\ last_laser_point = NoPoint
    /\ running = FALSE
    /\ calfile \in FoundFiles
    /\ backups \in {{}, {<<1, GarbledFile>>}}
    /\ step = NoStep
    /\ TrackerIdle

StoreFrame ==
    UNCHANGED <<routervars, recvars, calibration_ui, calibration_active, test_mode,
                active_app, tracker, camera_ok, last_laser_point, trackervars>>

\* main, line 116: a session starts with load_homography(screen_points); an
\* exception there ends the process
Load ==
    /\ ~running
    /\ \E rename_ok \in BOOLEAN :
       \E l \in {load_homography(calfile, backups, Markers, rename_ok)} :
           /\ Cardinality(l.backups) <= MaxBackups
           /\ homography_data' = l.data
           /\ calfile' = l.file
           /\ backups' = l.backups
           /\ running' = (l.raised = "None")
           /\ step' = [NoStep EXCEPT !.op = "load",
                                     !.computed = IF l.raised = "None" THEN "ok"
                                                  ELSE l.raised,
                                     !.before = calfile]
    /\ StoreFrame

\* a calibration round of the session ends in compute_homography; on_done
\* adopts what it returns
Calibrate ==
    /\ running
    /\ \E cam \in StoreLists, solve \in Solved \cup {NoMatrix}, io \in SaveOutcomes :
       \E c \in {compute_homography(calfile, cam, Markers, solve, io)} :
           /\ calfile' = c.file
           /\ homography_data' = IF c.raised = "None" THEN c.data ELSE homography_data
           /\ step' = [NoStep EXCEPT !.op = "compute",
                                     !.computed = IF c.raised = "None" THEN "ok"
                                                  ELSE c.raised,
                                     !.before = calfile]
    /\ UNCHANGED <<backups, running>>
    /\ StoreFrame

\* the process is stopped while compute_homography is in save_calibration
\* (line 63, reached when the lists pass the tests and a matrix is solved)
CalibrateStopped ==
    /\ running
    /\ \E solve \in Solved, at \in StopPoints :
           /\ calfile' = save_calibration_stopped(calfile, solve, ListOf(5, 5), Markers, at)
           /\ step' = [NoStep EXCEPT !.op = "stopped", !.before = calfile]
    /\ running' = FALSE
    /\ UNCHANGED <<homography_data, backups>>
    /\ StoreFrame

\* the session ends
Quit ==
    /\ running
    /\ running' = FALSE
    /\ step' = [NoStep EXCEPT !.op = "quit"]
    /\ UNCHANGED <<homography_data, calfile, backups>>
    /\ StoreFrame

\* between two sessions somebody puts a file in the place of the
\* calibration file
Put ==
    /\ ~running
    /\ \E file \in FoundFiles \ {AbsentFile} :
           /\ calfile' = file
           /\ step' = [NoStep EXCEPT !.op = "put"]
    /\ UNCHANGED <<homography_data, backups, running>>
    /\ StoreFrame

\* lines 244-248 of main: a detected point is mapped with the serving matrix
Apply ==
    /\ running
    /\ homography_data.homography # NoMatrix
    /\ \E point \in StorePoints :
       \E m \in {apply_homography(homography_data.homography, point)} :
           step' = [NoStep EXCEPT !.op = "apply",
                                  !.frame = Detection(point),
                                  !.fed = m.point,
                                  !.computed = IF m.raised = "None" THEN "ok"
                                               ELSE m.raised]
    /\ UNCHANGED <<homography_data, calfile, backups, running>>
    /\ StoreFrame

NextStore == Load \/ Calibrate \/ CalibrateStopped \/ Quit \/ Put \/ Apply

SpecStore == InitStore /\ [][NextStore]_vars

(* ================================================================== *)
(* Properties of the calibration file.  step tells what the latest       *)
(* operation was and step.before the file it found.                      *)
(* ================================================================== *)
\* the latest operation was a save that the process did not survive
SaveStopped == step.op = "stopped"

\* C11: when the process is stopped at some point of save_calibration, the
\* calibration file holds the complete calibration it held before the call
\* or the complete new one.
C11_SaveAtomic ==
    SaveStopped =>
        \/ calfile = step.before
        \/ calfile \in {FileOf("valid", H, ListOf(5, 5), Markers) : H \in Solved}

\* a file that is not a calibration record: text that does not parse, or
\* JSON that is no such record
Malformed(file) == file.state \in {"corrupt", "falsy", "list"}

\* the latest operation was a load_homography that found a malformed file
LoadedMalformed == step.op = "load" /\ Malformed(step.before)

\* C13: load_homography on a malformed calibration file returns a record
\* with homography = None without raising, and afterwards the malformed
\* content is held by one of the backups.
C13_MalformedKeptAside ==
    LoadedMalformed =>
        /\ step.computed = "ok"
        /\ homography_data.homography = NoMatrix
        /\ \E b \in backups : b[2] = step.before

\* C14: a load that moves a corrupt file aside gives it the first name of
\* .bak, .bak1, .bak2, ... that no backup has yet, and every backup there was
\* keeps its name and its content: the backups are one more than before.
C14_BackupNaming ==
    [][ (step'.op = "load" /\ step'.before.state = "corrupt") =>
            /\ backups \subseteq backups'
            /\ calfile' # calfile =>
                   /\ calfile' = AbsentFile
                   /\ \E n \in 0..Cardinality(backups) :
                          /\ n \notin BackupNames(backups)
                          /\ \A m \in 0..(n - 1) : m \in BackupNames(backups)
                          /\ backups' = backups \cup {<<n, calfile>>}
                   /\ Cardinality(BackupNames(backups')) = Cardinality(backups) + 1
      ]_vars

\* two corrupt files have been loaded one after the other while .bak1 was
\* there from the start: they are .bak and .bak2, and .bak1 is as before
C14_Witness ==
    /\ step.op = "load"
    /\ step.before = CorruptFile
    /\ calfile = AbsentFile
    /\ backups = {<<0, CorruptFile>>, <<1, GarbledFile>>, <<2, CorruptFile>>}

\* the latest operation was a load_homography
Loaded == step.op = "load"

\* C15: load_homography returns homography = None when there is no
\* calibration file and when the stored homography is null; when the file
\* stores a matrix it returns that matrix (as float32) together with the
\* stored camera points, without raising, whatever the lengths of the stored
\* lists.
C15_LoadResult ==
    Loaded =>
        /\ (\/ step.before.state = "absent"
            \/ step.before.state = "valid" /\ step.before.homography = NoMatrix) =>
               (step.computed = "ok" /\ homography_data.homography = NoMatrix)
        /\ (step.before.state = "valid" /\ step.before.homography # NoMatrix) =>
               /\ step.computed = "ok"
               /\ homography_data.homography = ToFloat32(step.before.homography)
               /\ homography_data.camera_points = step.before.camera_points
               /\ homography_data.screen_points = step.before.screen_points

\* a file with three camera points and five screen points has been loaded:
\* its matrix serves and the lists are as stored
C15_Witness ==
    /\ Loaded
    /\ step.before = FileOf("valid", "I", ListOf(3, 3), Markers)
    /\ homography_data = CalibrationData("I", ListOf(3, 3), Markers)
    /\ running

\* C16: the CalibrationData that load_homography or compute_homography has
\* returned holds camera_points and screen_points of one length N >= 4.
C16_EqualLengths ==
    (step.op \in {"load", "compute"} /\ step.computed = "ok") =>
        /\ Len(homography_data.camera_points) = Len(homography_data.screen_points)
        /\ Len(homography_data.camera_points) >= 4

\* the latest operation was an apply_homography on a point whose w is zero
AppliedDegenerate ==
    /\ step.op = "apply"
    /\ W(homography_data.homography, step.frame.point) = 0

\* C17: apply_homography on a point whose w-component is zero fails with
\* DegenerateTransform and returns no point.
C17_DegenerateRaises ==
    AppliedDegenerate =>
        (step.computed = "DegenerateTransform" /\ step.fed = NoPoint)

(* ================================================================== *)
(* The main loop.  main() as written stops at line 120, where Launcher   *)
(* is constructed without the on_quit it requires; the loop is modelled  *)
(* as it runs once that construction succeeds.                           *)
(* ================================================================== *)
\* the time one loop iteration takes (clock.tick(FPS) waits 1/60 s at the
\* least; an iteration may take as long as it likes)
FrameWait == 350
\* how many iterations a run is followed
MaxTicks == 10

\* positions on the screen: inside the launcher's buttons "Kalibrierung",
\* "Testmodus" and "Dosenschiessen"; PosReload and PosApply are in none of
\* them
PosCal == <<600, 400>>
PosTest == <<100, 550>>
PosApp == <<100, 150>>
ClickPositions == {PosCal, PosTest, PosApp, PosReload}

\* what pygame.event.get() yields in one iteration: at most one event
MainEvents ==
    {NoEvent, [kind |-> "quit", pos |-> NoPoint], [kind |-> "escape", pos |-> NoPoint],
     [kind |-> "move", pos |-> PosApp], [kind |-> "down", pos |-> PosApp]}
    \cup {[kind |-> "click", pos |-> p] : p \in ClickPositions}

\* what tracker.read() does in one iteration: it returns a detection, with a
\* point or with None, or it raises
FrameError == [kind |-> "error", point |-> NoPoint]
\* camera pixels: the first two lie in launcher buttons as they are, the last
\* two once G has doubled them
LaserPoints == {PosCal, PosApp, <<300, 200>>, <<50, 275>>}
Frames == {Detection(p) : p \in LaserPoints \cup {NoPoint}} \cup {FrameError}

\* what findHomography, the file system and the camera's start do when the
\* iteration gets to them; only the click that completes a calibration round
\* gets to the first two, only a click in test mode to the third
Envs == [solve : {"G", NoMatrix}, io : SaveOutcomes, start : {TRUE}]
Env0 == [solve |-> NoMatrix, io |-> "ok", start |-> TRUE]
StartEnvs == {[Env0 EXCEPT !.start = b] : b \in BOOLEAN}
EnvsNow ==
    IF calibration_active /\ calibration_ui.index + 1 >= Len(calibration_ui.screen_points)
    THEN Envs
    ELSE IF test_mode.on THEN StartEnvs ELSE {Env0}

\* an event loop that passes mouse events on only while the camera is fine
HandleEvent_MouseNeedsCamera(w, r, dwell, event, env, now) ==
    IF event.kind = "none" THEN [w |-> w, r |-> r, events |-> <<>>]
    ELSE IF event.kind = "quit"
    THEN [w |-> [w EXCEPT !.running = FALSE], r |-> r, events |-> <<>>]
    ELSE IF event.kind = "escape"
    THEN [w |-> [w EXCEPT !.active_app = NoApp,
                          !.calibration_active = FALSE,
                          !.test_mode = NoTestMode],
          r |-> r, events |-> <<>>]
    ELSE IF ~w.camera_ok THEN [w |-> w, r |-> r, events |-> <<>>]
    ELSE LET m == feed_mouse_event(r, dwell, event.kind, event.pos, now)
         IN  [w |-> Deliver(w, m.events, env), r |-> m.r, events |-> m.events]

\* lines 222-234: the event loop, on the one event of the iteration; events
\* are the PointerEvents that pointer_handler has received
HandleEvent(w, r, dwell, event, env, now) ==
    IF event.kind = "none" THEN [w |-> w, r |-> r, events |-> <<>>]
    ELSE IF event.kind = "quit"
    THEN [w |-> [w EXCEPT !.running = FALSE], r |-> r, events |-> <<>>]
    ELSE IF event.kind = "escape"
    THEN [w |-> [w EXCEPT !.active_app = NoApp,
                          !.calibration_active = FALSE,
                          !.test_mode = NoTestMode],
          r |-> r, events |-> <<>>]
    ELSE LET m == feed_mouse_event(r, dwell, event.kind, event.pos, now)
         IN  [w |-> Deliver(w, m.events, env), r |-> m.r, events |-> m.events]

\* the except block of lines 250-257
StopTracker(w) == [w EXCEPT !.tracker = FALSE, !.camera_ok = FALSE]

\* TestMode.set_detection: line 107 stores the detection, then line 109
\* reads detection.frame_preview, which a LaserDetection (laser_tracker.py
\* 17-23) does not have
TestMode_set_detection(w, frame) ==
    [raised |-> "AttributeError",
     w |-> [w EXCEPT !.test_mode.last_detection = [set |-> TRUE, point |-> frame.point]]]

\* lines 236-257: the tracker block.  In test mode the AttributeError of
\* set_detection ends in the except block like a failed read.
ReadTracker(w, r, dwell, frame, env, now) ==
    IF ~w.tracker
    THEN [w |-> w, r |-> r, fed |-> NoPoint, click |-> FALSE, events |-> <<>>]
    ELSE IF frame.kind = "error"
    THEN [w |-> StopTracker(w), r |-> r, fed |-> NoPoint, click |-> FALSE,
          events |-> <<>>]
    ELSE IF w.test_mode.on
    THEN [w |-> StopTracker(TestMode_set_detection(w, frame).w), r |-> r,
          fed |-> NoPoint, click |-> FALSE, events |-> <<>>]
    ELSE IF frame.point # NoPoint
    THEN LET H == w.homography_data.homography
             w1 == [w EXCEPT !.last_laser_point = frame.point]
             m == IF H # NoMatrix THEN apply_homography(H, frame.point)
                  ELSE [raised |-> "None", point |-> frame.point]
             f == feed_point(r, dwell, m.point, "laser", now)
         IN  IF m.raised # "None"
             THEN [w |-> StopTracker(w1), r |-> r, fed |-> NoPoint, click |-> FALSE,
                   events |-> <<>>]
             ELSE [w |-> Deliver(w1, f.events, env),
                   r |-> f.r, fed |-> m.point, click |-> HasClick(f.events),
                   events |-> f.events]
    ELSE [w |-> [w EXCEPT !.last_laser_point = NoPoint], r |-> r,
          fed |-> NoPoint, click |-> FALSE, events |-> <<>>]

\* TestMode.draw, lines 403-414: the exception it raises, "None" if it
\* returns.  Line 407 maps the laser position with the homography of the
\* test mode, line 411 reads frame_preview of a stored detection.
TestMode_draw(w) ==
    LET stored == w.test_mode.last_detection
        laser_pos == IF stored.set /\ stored.point # NoPoint
                     THEN stored.point ELSE w.last_laser_point
        mapped == IF w.test_mode.homography # NoMatrix /\ laser_pos # NoPoint
                  THEN apply_homography(w.test_mode.homography, laser_pos)
                  ELSE [raised |-> "None", point |-> NoPoint]
    IN  IF mapped.raised # "None" THEN mapped.raised
        ELSE IF stored.set THEN "AttributeError"
        ELSE "None"

\* lines 259-269: update and draw of the surface shown, outside any try
Draw(w) ==
    IF DrawnSurface(w) = "test_mode" THEN TestMode_draw(w) ELSE "None"

\* one iteration of "while running"; call notes the pygame event of the
\* iteration and emitted the PointerEvents pointer_handler received in it.
\* An exception that leaves the iteration leaves main: the loop does not
\* run again, and step.escaped names the exception.
Tick(event, frame, env) ==
    /\ running
    /\ clock + FrameWait <= Epoch + MaxTicks * FrameWait
    /\ \E now \in {clock + FrameWait} :
       \E e \in {HandleEvent(TheWorld, TheRouter, dwell_ms, event, env, now)} :
       \E t \in {ReadTracker(e.w, e.r, dwell_ms, frame, env, now)} :
       \E d \in {Draw(t.w)} :
           /\ clock' = now
           /\ SetRouter(t.r)
           /\ SetWorld([t.w EXCEPT !.running = @ /\ d = "None"])
           /\ step' = [op |-> "tick",
                       frame |-> IF e.w.tracker THEN frame ELSE NoFrame,
                       fed |-> t.fed, click |-> t.click,
                       computed |-> t.w.trace.computed,
                       reloaded |-> t.w.trace.reloaded,
                       collected |-> t.w.trace.collected,
                       restarted |-> t.w.trace.restarted,
                       before |-> NoStep.before,
                       escaped |-> d]
           /\ call' = [op |-> "event", arg |-> event.pos, tag |-> event.kind]
           /\ emitted' = e.events \o t.events
           /\ UNCHANGED <<dwell_ms, obs, trackervars>>

\* the calibration file at the start of main: none at a first run, or the
\* one an earlier session saved
MainFiles == {AbsentFile, FileOf("valid", "G", ListOf(5, 5), Markers)}

\* the state in which the loop is entered: lines 107-133 and 186-193, with
\* the default dwell time.  Line 128 binds the LaserTracker before start()
\* is called, so main holds a tracker also when the camera could not be
\* opened; camera_ok tells whether it could.
InitMain ==
    /\ clock = Epoch
    /\ dwell_ms = DWELL_MS
    /\ anchor = NoPoint
    /\ anchor_ts = NoTs
    /\ last_click_ts = 0
    /\ last_pos = NoPoint
    /\ source = "laser"
    /\ call = NoCall
    /\ emitted = <<>>
    /\ obs = ObsInit
    /\ \E file \in MainFiles :
       \E l \in {load_homography(file, {}, Markers, TRUE)} :
           /\ homography_data = l.data
           /\ calfile = l.file
           /\ backups = l.backups
    /\ calibration_ui = CalibrationUI(0, <<>>, Markers)
    /\ calibration_active = FALSE
    /\ test_mode = NoTestMode
    /\ active_app = NoApp
    /\ tracker = TRUE
    /\ camera_ok \in BOOLEAN
    /\ last_laser_point = NoPoint
    /\ running = TRUE
    /\ step = NoStep
    /\ TrackerIdle

\* what tracker.read() can do in the iteration: a capture that is not open
\* yields no frame
FramesNow(ok) == IF ok THEN Frames ELSE {FrameError}

\* the events of an iteration: the apply button is clicked only while the
\* panel of test mode is shown
MainEventsNow ==
    MainEvents \cup (IF test_mode.on THEN {[kind |-> "click", pos |-> PosApply]} ELSE {})

\* a session by mouse and keyboard, main holding no tracker: mouse and
\* keyboard are taken up when the camera is lost before the laser was seen
\* with a point (the router's anchor is then still None).  When the event of
\* the iteration restarts the camera, the tracker block of the same
\* iteration reads from it.
MouseTick ==
    /\ ~tracker
    /\ anchor = NoPoint
    /\ \E event \in MainEventsNow, env \in EnvsNow :
           IF test_mode.on /\ event.kind = "click" /\ event.pos = PosApply
           THEN \E frame \in FramesNow(env.start) : Tick(event, frame, env)
           ELSE Tick(event, NoFrame, env)

\* a session by laser: nobody touches mouse or keyboard while main holds a
\* tracker
LaserTick ==
    /\ tracker
    /\ \E frame \in FramesNow(camera_ok), env \in EnvsNow : Tick(NoEvent, frame, env)

NextMain == MouseTick \/ LaserTick

SpecMain == InitMain /\ [][NextMain]_vars

(* ================================================================== *)
(* Properties of the main loop.  step tells what the latest iteration    *)
(* did; the other variables are the state it left.                       *)
(* ================================================================== *)
\* the latest iteration processed a frame in which no laser was detected
AbsentFrame ==
    /\ step.op = "tick"
    /\ step.frame.kind = "detection"
    /\ step.frame.point = NoPoint

\* C3: whenever a processed frame yields a detection whose point is None, the
\* router's anchor and anchor_ts are cleared in that iteration.
C3_AbsentFrameClearsAnchor ==
    AbsentFrame => (anchor = NoPoint /\ anchor_ts = NoTs)

C12_SavedBeforeAdopted ==
    [][ /\ step'.computed = "ok" =>
               calfile' = FileOf("valid", homography_data'.homography,
                                 homography_data'.camera_points,
                                 homography_data'.screen_points)
        /\ (homography_data'.homography # homography_data.homography
            /\ ~step'.reloaded) =>
               (calfile'.state = "valid"
                /\ calfile'.homography = homography_data'.homography)
        /\ step'.computed = "OSError" => homography_data' = homography_data
      ]_vars

\* a calibration round has succeeded: the file and the serving record hold
\* the matrix G and the five points that were collected
C12_Witness ==
    /\ step.op = "tick"
    /\ step.computed = "ok"
    /\ homography_data.homography = "G"
    /\ Len(homography_data.camera_points) = 5
    /\ calfile = FileOf("valid", "G", homography_data.camera_points, Markers)


(* ================================================================== *)
(* The main loop started by laser on a calibration file whose matrix     *)
(* maps some or all camera pixels to no screen point                     *)
(* ================================================================== *)
MappedFiles ==
    {FileOf("valid", "D", Markers, Markers), FileOf("valid", "N", Markers, Markers)}

InitMapped ==
    /\ clock = Epoch
    /\ dwell_ms = DWELL_MS
    /\ anchor = NoPoint
    /\ anchor_ts = NoTs
    /\ last_click_ts = 0
    /\ last_pos = NoPoint
    /\ source = "laser"
    /\ call = NoCall
    /\ emitted = <<>>
    /\ obs = ObsInit
    /\ \E file \in MappedFiles :
       \E l \in {load_homography(file, {}, Markers, TRUE)} :
           /\ homography_data = l.data
           /\ calfile = l.file
           /\ backups = l.backups
    /\ calibration_ui = CalibrationUI(0, <<>>, Markers)
    /\ calibration_active = FALSE
    /\ test_mode = NoTestMode
    /\ active_app = NoApp
    /\ tracker = TRUE
    /\ camera_ok = TRUE
    /\ last_laser_point = NoPoint
    /\ running = TRUE
    /\ step = NoStep
    /\ TrackerIdle

SpecMapped == InitMapped /\ [][NextMain]_vars

\* the tracker block of the step maps a detected point and apply_homography
\* raises
MappingFails ==
    /\ tracker
    /\ ~test_mode.on
    /\ step'.op = "tick"
    /\ step'.frame.kind = "detection"
    /\ step'.frame.point # NoPoint
    /\ homography_data.homography # NoMatrix
    /\ apply_homography(homography_data.homography, step'.frame.point).raised # "None"

\* C18: an iteration in which apply_homography raises for the detected point
\* feeds no point and leaves the tracker running and camera_ok true.
C18_MappingFailureSkipsTick ==
    [][ MappingFails => (step'.fed = NoPoint /\ tracker' /\ camera_ok') ]_vars

C20_NoReadAfterFailure ==
    [][ /\ step'.frame.kind = "error" => (~tracker' /\ ~camera_ok')
        /\ (~camera_ok /\ step'.op = "tick" /\ ~step'.restarted) =>
               step'.frame = NoFrame
      ]_vars


\* the latest step was an iteration of the loop; its end is the draw step
Drew == step.op = "tick"

\* C21: at every draw step main holding no tracker goes with camera_ok
\* false, which is what shows the overlay; and an iteration that main enters
\* without a tracker (no restart being requested in it) hands the mouse event
\* of the iteration to pointer_handler as one event with source "mouse" and
\* hands over no event from the laser.
C21_CameraAbsenceIndicated ==
    [][ step'.op = "tick" =>
            /\ ~tracker' => ~camera_ok'
            /\ (~tracker /\ ~step'.restarted) =>
                   /\ step'.fed = NoPoint
                   /\ \A i \in 1..Len(emitted') : emitted'[i].source = "mouse"
                   /\ call'.tag \in MouseTypes =>
                          emitted' = <<PointerEvent(call'.tag, call'.arg, "mouse", clock')>>
      ]_vars

\* without a tracker, under the overlay, a mouse click has reached the
\* calibration screen and was collected there
C21_Witness ==
    /\ Drew
    /\ ~tracker
    /\ ~camera_ok
    /\ call.tag = "click"
    /\ Len(emitted) = 1
    /\ emitted[1].source = "mouse"
    /\ calibration_active
    /\ step.collected
    /\ calibration_ui.camera_points = <<call.arg>>


\* how many of calibration_active, test_mode and active_app are set
SurfacesSet ==
    Cardinality({k \in {"calibration_active", "test_mode", "active_app"} :
                    \/ k = "calibration_active" /\ calibration_active
                    \/ k = "test_mode" /\ test_mode.on
                    \/ k = "active_app" /\ active_app # NoApp})

\* the label of the launcher's button that contains pos, "None" if none does
LabelAt(pos) ==
    LET hit == {i \in 1..Len(Labels) :
                    contains(layout_grid(i - 1, SCREEN_WIDTH, SCREEN_HEIGHT), pos)}
    IN  IF hit = {} THEN "None" ELSE Labels[CHOOSE i \in hit : TRUE]

\* C22: in every state of the loop at most one of calibration_active,
\* test_mode and active_app is set, and the surface that pointer_handler hands
\* an event to is the surface that the draw block draws; an iteration changes
\* the surface or the app only by Escape, which leads to the launcher, or by a
\* click that the launcher receives on the button of the surface started.
C22_OneSurface ==
    /\ [](SurfacesSet <= 1 /\ ReceivingSurface(TheWorld) = DrawnSurface(TheWorld))
    /\ [][ (step'.op = "tick" /\ <<calibration_active, test_mode.on, active_app>>'
                                  # <<calibration_active, test_mode.on, active_app>>) =>
               \/ /\ call'.tag = "escape"
                  /\ DrawnSurface(TheWorld') = "launcher"
               \/ /\ DrawnSurface(TheWorld) = "launcher"
                  /\ \E i \in 1..Len(emitted') :
                        /\ emitted'[i].type = "click"
                        /\ LET label == LabelAt(emitted'[i].position)
                           IN  \/ label = "Kalibrierung" /\ calibration_active'
                               \/ label = "Testmodus" /\ test_mode'.on
                               \/ label \in AppNames /\ active_app' = label
         ]_vars

\* Escape has led from the calibration screen, on which a point had been
\* collected, back to the launcher
C22_Witness ==
    /\ Drew
    /\ call.tag = "escape"
    /\ calibration_ui.camera_points # <<>>
    /\ DrawnSurface(TheWorld) = "launcher"
    /\ SurfacesSet = 0


\* C23: whenever an iteration records a point on the calibration screen, the
\* click that carried it comes from the laser and its position is the point
\* that tracker.read() detected in that iteration, in camera pixels.
C23_RawCameraPoints ==
    [][ (step'.op = "tick" /\ step'.collected) =>
            /\ step'.frame.kind = "detection"
            /\ step'.frame.point # NoPoint
            /\ \A i \in 1..Len(emitted') :
                   emitted'[i].type = "click" =>
                       /\ emitted'[i].source = "laser"
                       /\ emitted'[i].position = step'.frame.point
      ]_vars


(* ================================================================== *)
(* The detector: one LaserTracker reading frame after frame.  A frame   *)
(* is given by the contours cv2.findContours finds in its mask, in scan *)
(* order.                                                               *)
(* ================================================================== *)
\* the most contours in the mask of one frame
MaxContours == 2
\* read is followed while the smoothed coordinates have a denominator up to
\* this one
MaxDenominator == 4

\* areas of contours: whole or half pixels; 12 and 4000 are the default
\* bounds of the filter, a contour of one pixel or of a line has area 0
Areas == {Whole(0), <<1, 2>>, Whole(12), Whole(4000), Whole(4001)}
\* where the i-th contour of a frame lies
CentroidAt(i) == <<10 * (i % 2), 4 * i>>
\* the frames: the contours of a frame differ in their areas
ContourLists ==
    {[i \in 1..n |-> Contour(as[i], IF as[i][1] = 0 THEN NoPoint ELSE CentroidAt(i))] :
        <<n, as>> \in UNION {{<<m, f>> : f \in [1..m -> Areas]} : m \in 0..MaxContours}}

\* settings a settings file may hold: min_area 0 or the default, ema_alpha
\* the default, 0 (for which read takes EMA_ALPHA), 1/2 or 1
SettingsChoices ==
    {DefaultSettings} \cup
    {[laser |-> [min_area |-> 0, max_area |-> 4000], ema_alpha |-> a] :
        a \in {Whole(0), <<1, 2>>, Whole(1)}}

InitDetector ==
    /\ clock = Epoch
    /\ dwell_ms = DWELL_MS
    /\ anchor = NoPoint
    /\ anchor_ts = NoTs
    /\ last_click_ts = 0
    /\ last_pos = NoPoint
    /\ source = "laser"
    /\ call = NoCall
    /\ emitted = <<>>
    /\ obs = ObsInit
    /\ homography_data = NoData
    /\ calibration_ui = CalibrationUI(0, <<>>, Markers)
    /\ calibration_active = FALSE
    /\ test_mode = NoTestMode
    /\ active_app = NoApp
    /\ tracker = TRUE
    /\ camera_ok = TRUE
    /\ last_laser_point = NoPoint
    /\ running = TRUE
    /\ calfile = AbsentFile
    /\ backups = {}
    /\ step = NoStep
    /\ settings \in SettingsChoices
    /\ last_point = NoPoint
    /\ contours = <<>>
    /\ detection = NoDetection

\* one call of tracker.read() whose frame was read; step.before keeps
\* self.last_point as it was when read was called
Read ==
    /\ last_point # NoPoint =>
           /\ last_point[1][2] <= MaxDenominator
           /\ last_point[2][2] <= MaxDenominator
    /\ \E cs \in ContourLists :
       \E res \in {read(cs, settings, last_point)} :
           /\ contours' = cs
           /\ detection' = res.detection
           /\ last_point' = res.last_point
           /\ step' = [NoStep EXCEPT !.op = "read", !.before = last_point]
    /\ UNCHANGED <<routervars, recvars, homography_data, calibration_ui,
                   calibration_active, test_mode, active_app, tracker, camera_ok,
                   last_laser_point, running, calfile, backups, settings>>

NextDetector == Read

SpecDetector == InitDetector /\ [][NextDetector]_vars

\* the contours of the latest frame whose area passes the filter of line 77
Qualifying ==
    {i \in 1..Len(contours) :
        /\ ~FracLess(contours[i].area, Whole(settings.laser.min_area))
        /\ ~FracLess(Whole(settings.laser.max_area), contours[i].area)}

\* C24: the detection returned for a frame has point None exactly when no
\* contour of the frame has an area within [min_area, max_area].
C24_PointIffQualifying ==
    step.op = "read" => ((detection.point = NoPoint) <=> (Qualifying = {}))


\* the first, in scan order, of the qualifying contours with the largest area
FirstLargest ==
    CHOOSE i \in Qualifying :
        \A j \in Qualifying :
            \/ FracLess(contours[j].area, contours[i].area)
            \/ contours[j].area = contours[i].area /\ i <= j

\* C25: when contours of the frame pass the filter, the detection is made
\* from the first of those with the largest area: the area returned is that
\* contour's area, and its centroid is what goes into the smoothing, the
\* point returned and the state kept.
C25_FirstLargestSelected ==
    (step.op = "read" /\ Qualifying # {}) =>
        LET c == contours[FirstLargest]
            smoothed == Smoothed(c.centroid, step.before, settings.ema_alpha)
        IN  /\ detection.area = c.area
            /\ detection.point = ReportedPoint(smoothed)
            /\ c.centroid # NoPoint => last_point = smoothed

\* two contours of the same, largest area at different places: the detection
\* shows the place of the first
C25_Witness ==
    /\ step.op = "read"
    /\ step.before = NoPoint
    /\ Len(contours) = 2
    /\ Qualifying = {1, 2}
    /\ contours[1].area = contours[2].area
    /\ contours[1].centroid # contours[2].centroid
    /\ detection.point = contours[1].centroid
    /\ detection.area = Whole(4000)


\* the area of the contour the frame's detection is made from, 0 if no
\* contour qualifies
SelectedArea ==
    IF Qualifying = {} THEN Whole(0) ELSE contours[FirstLargest].area

\* C26: the confidence returned is min(1, selected area / max(min_area, 1));
\* it lies in [0, 1] and is 0 when no contour qualifies; the divisor is at
\* least 1, and is 1 for min_area = 0.
C26_Confidence ==
    step.op = "read" =>
        LET divisor == IF settings.laser.min_area > 1 THEN settings.laser.min_area ELSE 1
            quotient == Frac(SelectedArea[1], SelectedArea[2] * divisor)
        IN  /\ divisor >= 1
            /\ settings.laser.min_area = 0 => divisor = 1
            /\ detection.confidence =
                   IF quotient[1] > quotient[2] THEN Whole(1) ELSE quotient
            /\ 0 <= detection.confidence[1]
            /\ detection.confidence[1] <= detection.confidence[2]
            /\ Qualifying = {} => detection.confidence = Whole(0)

\* with min_area = 0 a contour of half a pixel gives the confidence 1/2
C26_Witness ==
    /\ step.op = "read"
    /\ settings.laser.min_area = 0
    /\ Qualifying # {}
    /\ detection.area = <<1, 2>>
    /\ detection.confidence = <<1, 2>>


\* the frame is a hit: the contour the detection is made from has a centroid
Hit == Qualifying # {} /\ contours[FirstLargest].centroid # NoPoint

\* alpha * raw + (1 - alpha) * prev, or raw when there is no prev
Expected(raw, alpha, prev) ==
    IF prev = NoPoint THEN <<Whole(raw[1]), Whole(raw[2])>>
    ELSE <<FracAdd(Frac(alpha[1] * raw[1], alpha[2]),
                   Frac((alpha[2] - alpha[1]) * prev[1][1], alpha[2] * prev[1][2])),
           FracAdd(Frac(alpha[1] * raw[2], alpha[2]),
                   Frac((alpha[2] - alpha[1]) * prev[2][1], alpha[2] * prev[2][2]))>>

\* for a hit, the blend of its centroid with the state read found, with the
\* configured alpha
ExpectedSmoothed ==
    Expected(contours[FirstLargest].centroid, settings.ema_alpha, step.before)

\* the configured alpha lies in (0, 1]
AlphaConfigured ==
    settings.ema_alpha[1] > 0 /\ settings.ema_alpha[1] <= settings.ema_alpha[2]

\* C27 as stated: for a hit, the point returned is alpha * raw +
\* (1 - alpha) * previous state (the raw centroid when there is no previous
\* state), and that value is the new state.
C27_ReportsBlend ==
    (step.op = "read" /\ Hit /\ AlphaConfigured) =>
        /\ last_point = ExpectedSmoothed
        /\ <<Whole(detection.point[1]), Whole(detection.point[2])>> = ExpectedSmoothed

\* C27: for a hit, the new state is alpha * raw + (1 - alpha) * previous
\* state (the raw centroid when there is no previous state), kept as it is,
\* and the point returned is that value with each coordinate cut to a whole
\* number towards zero.
C27_ReportsTruncatedBlend ==
    (step.op = "read" /\ Hit /\ AlphaConfigured) =>
        /\ last_point = ExpectedSmoothed
        /\ detection.point = <<ExpectedSmoothed[1][1] \div ExpectedSmoothed[1][2],
                               ExpectedSmoothed[2][1] \div ExpectedSmoothed[2][2]>>

\* a second hit whose blend with the first is not whole: the state keeps the
\* fraction, the point returned does not
C27_Witness ==
    /\ step.op = "read"
    /\ Hit
    /\ AlphaConfigured
    /\ settings.ema_alpha # Whole(1)
    /\ step.before # NoPoint
    /\ last_point[1][2] > 1
    /\ detection.point[1] * last_point[1][2] < last_point[1][1]


\* the latest frame was read and none of its contours qualifies
Miss == step.op = "read" /\ Qualifying = {}

\* C28: a frame in which no contour qualifies returns point None and leaves
\* last_point as it was; the hit that follows a miss is blended with the
\* state there was before the miss, and not seeded anew.
C28_MissKeepsState ==
    [][ step'.op = "read" =>
            /\ Miss' => (detection'.point = NoPoint /\ last_point' = last_point)
            /\ (Miss /\ step.before # NoPoint /\ Hit' /\ AlphaConfigured) =>
                   LET blended == Expected(contours'[FirstLargest'].centroid,
                                           settings.ema_alpha, step.before)
                   IN  /\ last_point' = blended
                       /\ detection'.point = <<blended[1][1] \div blended[1][2],
                                               blended[2][1] \div blended[2][2]>>
      ]_vars

\* a frame with contours of which none qualifies, read after a hit: no point,
\* and the smoothed state of the hit is still there
C28_Witness ==
    /\ Miss
    /\ contours # <<>>
    /\ detection.point = NoPoint
    /\ step.before # NoPoint
    /\ last_point = step.before
    /\ last_point[1][2] > 1


\* C29: every PointerEvent that pointer_handler receives in the loop has a
\* type among move, down and click and a source among laser and mouse; an
\* event of the laser is a move or a click, and a "down" comes from the mouse.
C29_EventVocabulary ==
    \A i \in 1..Len(emitted) :
        /\ emitted[i].type \in {"move", "down", "click"}
        /\ emitted[i].source \in {"laser", "mouse"}
        /\ emitted[i].source = "laser" => emitted[i].type \in {"move", "click"}
        /\ emitted[i].type = "down" => emitted[i].source = "mouse"

\* an iteration in which the laser has moved and clicked by dwelling
C29_Witness ==
    /\ Drew
    /\ Len(emitted) = 2
    /\ emitted[1].type = "move"
    /\ emitted[1].source = "laser"
    /\ emitted[2].type = "click"
    /\ emitted[2].source = "laser"


(* ================================================================== *)
(* Persistence round trip: calls of compute_homography on the lists     *)
(* held in calibration_ui, and calls of load_homography in between with  *)
(* the screen points a caller may pass as the default.                   *)
(* ================================================================== *)
\* the screen_points argument of load_homography: None, the markers of the
\* display, or three points of another display
LoadDefaults == {<<>>, Markers, ListOf(3, 3)}

\* one call load_homography(screen_points); homography_data keeps what the
\* call returned, if it returned
LoadAfter ==
    /\ \E dflt \in LoadDefaults, rename_ok \in BOOLEAN :
       \E l \in {load_homography(calfile, backups, dflt, rename_ok)} :
           /\ Cardinality(l.backups) <= MaxBackups
           /\ homography_data' = IF l.raised = "None" THEN l.data ELSE homography_data
           /\ calfile' = l.file
           /\ backups' = l.backups
           /\ step' = [NoStep EXCEPT !.op = "load",
                                     !.computed = IF l.raised = "None" THEN "ok"
                                                  ELSE l.raised,
                                     !.before = calfile]
    /\ UNCHANGED <<routervars, recvars, calibration_ui, calibration_active,
                   test_mode, active_app, tracker, camera_ok,
                   last_laser_point, running, trackervars>>

NextRoundTrip == Compute \/ LoadAfter

SpecRoundTrip == InitCompute /\ [][NextRoundTrip]_vars

\* C30: a load_homography that follows a successful compute_homography
\* directly returns what that call returned: the same matrix, the same
\* camera points and the same screen points, whatever default it is given.
C30_RoundTrip ==
    [][ (step.op = "compute" /\ step.computed = "ok" /\ step'.op = "load") =>
            /\ homography_data'.homography = homography_data.homography
            /\ homography_data'.camera_points = homography_data.camera_points
            /\ homography_data'.screen_points = homography_data.screen_points
      ]_vars


(* ================================================================== *)
(* The fit: compute_homography on correspondence pairs, with the matrix *)
(* that cv2.findHomography(src, dst, cv2.RANSAC, 8.0) finds for them.   *)
(* The robust method returns the matrix of the largest set of pairs     *)
(* that one matrix fits within the threshold, estimated from those      *)
(* pairs only.                                                          *)
(* ================================================================== *)
\* line 50: ransacReprojThreshold=8.0
RANSAC_REPROJ_THRESHOLD == 8

\* ten times the point that H maps p to, before int(): G adds 0.1
Project10(H, p) ==
    IF H = "I" THEN <<10 * p[1], 10 * p[2]>> ELSE <<20 * p[1] + 1, 20 * p[2] + 1>>

\* the pairs that H fits within the threshold
Inliers(H, cam, scr) ==
    {i \in 1..Len(cam) :
        LET dx == Project10(H, cam[i])[1] - 10 * scr[i][1]
            dy == Project10(H, cam[i])[2] - 10 * scr[i][2]
        IN  dx * dx + dy * dy <=
                (10 * RANSAC_REPROJ_THRESHOLD) * (10 * RANSAC_REPROJ_THRESHOLD)}

\* what findHomography returns for the pairs: a matrix that fits the most of
\* them, at least four (lines 50-53)
FitOutcomes(cam, scr) ==
    {H \in Solved :
        /\ Cardinality(Inliers(H, cam, scr)) >= 4
        /\ \A K \in Solved :
               Cardinality(Inliers(K, cam, scr)) <= Cardinality(Inliers(H, cam, scr))}

\* six camera pixels of which no three lie on a line
FitCamera ==
    << <<0, 0>>, <<400, 0>>, <<400, 300>>, <<0, 300>>, <<100, 200>>, <<300, 50>> >>
Twice(points) == [i \in 1..Len(points) |-> <<2 * points[i][1], 2 * points[i][2]>>]
Moved(points, i, d) == [points EXCEPT ![i] = <<@[1] + d, @[2]>>]
Prefix(points, n) == [i \in 1..n |-> points[i]]

\* the camera lists, and the screen lists paired with them: the places G or
\* I maps the camera pixels to, and for six pairs the same with one place set
\* 100 pixels aside, which leaves five pairs that one matrix fits
FitCameraLists == {Prefix(FitCamera, n) : n \in 4..6}
FitScreenLists ==
    {Prefix(Twice(FitCamera), n) : n \in 4..6} \cup FitCameraLists
    \cup {Moved(Twice(FitCamera), i, 100) : i \in 1..6}

InitFit ==
    /\ clock = Epoch
    /\ dwell_ms = DWELL_MS
    /\ anchor = NoPoint
    /\ anchor_ts = NoTs
    /\ last_click_ts = 0
    /\ last_pos = NoPoint
    /\ source = "laser"
    /\ call = NoCall
    /\ emitted = <<>>
    /\ obs = ObsInit
    /\ homography_data = NoData
    /\ \E cam \in FitCameraLists, scr \in FitScreenLists :
           /\ Len(cam) = Len(scr) => FitOutcomes(cam, scr) # {}
           /\ calibration_ui = CalibrationUI(0, cam, scr)
    /\ calibration_active = FALSE
    /\ test_mode = NoTestMode
    /\ active_app = NoApp
    /\ tracker = FALSE
    /\ camera_ok = FALSE
    /\ last_laser_point = NoPoint
    /\ running = FALSE
    /\ calfile \in InitFiles
    /\ backups = {}
    /\ step = NoStep
    /\ TrackerIdle

\* one call compute_homography(camera_points, screen_points) on the pairs
\* held in calibration_ui
Fit ==
    \E solve \in (IF Len(calibration_ui.camera_points) = Len(calibration_ui.screen_points)
                  THEN FitOutcomes(calibration_ui.camera_points,
                                   calibration_ui.screen_points)
                  ELSE {NoMatrix}),
       io \in SaveOutcomes :
        \E c \in {compute_homography(calfile, calibration_ui.camera_points,
                                     calibration_ui.screen_points, solve, io)} :
            /\ calfile' = c.file
            /\ homography_data' = c.data
            /\ step' = [NoStep EXCEPT !.op = "compute",
                                      !.computed = IF c.raised = "None" THEN "ok"
                                                   ELSE c.raised,
                                      !.before = calfile]
            /\ UNCHANGED <<routervars, recvars, calibration_ui, calibration_active,
                           test_mode, active_app, tracker, camera_ok,
                           last_laser_point, running, backups, trackervars>>

NextFit == Fit

SpecFit == InitFit /\ [][NextFit]_vars

\* no three of the points lie on one line
GeneralPosition(points) ==
    \A i, j, k \in 1..Len(points) :
        (i < j /\ j < k) =>
            (points[j][1] - points[i][1]) * (points[k][2] - points[i][2])
                # (points[k][1] - points[i][1]) * (points[j][2] - points[i][2])

\* C31: when compute_homography has returned for four or more pairs in
\* general position, apply_homography with the matrix returned maps every
\* camera point to within 2 pixels of the screen point paired with it.
C31_RoundTripWithin2 ==
    (/\ step.op = "compute"
     /\ step.computed = "ok"
     /\ Len(homography_data.camera_points) >= 4
     /\ GeneralPosition(homography_data.camera_points)
     /\ GeneralPosition(homography_data.screen_points)) =>
        \A i \in 1..Len(homography_data.camera_points) :
            LET m == apply_homography(homography_data.homography,
                                      homography_data.camera_points[i])
            IN  /\ m.raised = "None"
                /\ ~Beyond(m.point, homography_data.screen_points[i], 2)


\* C32: an iteration takes the tracker away and sets camera_ok to false only
\* when its tracker.read() has failed; in particular an iteration in test
\* mode whose frame was read keeps the tracker.
C32_StoppedOnlyByCamera ==
    [][ (step'.op = "tick" /\ tracker /\ ~tracker') =>
            /\ step'.frame.kind = "error"
            /\ ~camera_ok'
      ]_vars


\* C33: the loop stops running only in the iteration of a QUIT event, and no
\* iteration lets an exception leave main, whatever surface is shown.
C33_StopsOnlyOnQuit ==
    [][ (step'.op = "tick" /\ running /\ ~running') =>
            /\ call'.tag = "quit"
            /\ step'.escaped = "None"
      ]_vars

\* the PointerEvents of the iteration include a click
ClickDelivered(events) == \E i \in 1..Len(events) : events[i].type = "click"

\* C34: between iterations CalibrationUI has index = len(camera_points) and
\* 0 <= index < len(screen_points), so target_point() names an existing
\* marker; an iteration whose pointer events are all of a type other than
\* click changes neither index nor camera_points.
C34_IndexInRange ==
    /\ [](/\ calibration_ui.index = Len(calibration_ui.camera_points)
          /\ 0 <= calibration_ui.index
          /\ calibration_ui.index < Len(calibration_ui.screen_points))
    /\ [][ (step'.op = "tick" /\ ~ClickDelivered(emitted')) =>
               /\ calibration_ui'.index = calibration_ui.index
               /\ calibration_ui'.camera_points = calibration_ui.camera_points
         ]_vars

\* the calibration screen, two or more markers done, has just received a
\* move and no click
C34_Witness ==
    /\ step.op = "tick"
    /\ calibration_active
    /\ calibration_ui.index >= 2
    /\ emitted # <<>>
    /\ ~ClickDelivered(emitted)

\* the position of the click among the PointerEvents of the iteration
ClickPosition(events) ==
    events[CHOOSE i \in 1..Len(events) : events[i].type = "click"].position

\* C35: a click received while calibrating records its position as one more
\* point and moves on to the next marker; the homography is computed in the
\* iteration of the click on the last of the markers and in no other; after
\* the computation, successful or not, and after calibration has been
\* entered from the launcher, the marker is 0 and no point is recorded.
C35_CollectionProtocol ==
    [][ step'.op = "tick" =>
          LET ui == calibration_ui
              clicked == calibration_active /\ ClickDelivered(emitted')
              last == ui.index + 1 = Len(ui.screen_points)
          IN  /\ (clicked /\ ~last) =>
                     /\ calibration_ui'.index = ui.index + 1
                     /\ calibration_ui'.camera_points =
                            Append(ui.camera_points, ClickPosition(emitted'))
              /\ (step'.computed # "no") <=> (clicked /\ last)
              /\ (step'.computed # "no") =>
                     /\ calibration_ui'.index = 0
                     /\ calibration_ui'.camera_points = <<>>
              /\ (~calibration_active /\ calibration_active') =>
                     /\ calibration_ui'.index = 0
                     /\ calibration_ui'.camera_points = <<>>
      ]_vars

\* the click on the last marker has led to a computation that failed, and
\* the collection is back at marker 0
C35_Witness ==
    /\ step.op = "tick"
    /\ step.computed \notin {"no", "ok"}
    /\ calibration_active
    /\ calibration_ui.index = 0

(* ================================================================== *)
(* The loop with a working tracker and a keyboard at hand: Escape is    *)
(* pressed while the laser is being tracked                             *)
(* ================================================================== *)
\* an iteration whose event is the Escape key (lines 225-228), the tracker
\* block of the same iteration reading its frame
EscapeTick ==
    /\ tracker
    /\ \E frame \in FramesNow(camera_ok), env \in EnvsNow :
           Tick([kind |-> "escape", pos |-> NoPoint], frame, env)

NextSwitch == LaserTick \/ EscapeTick

SpecSwitch == InitMain /\ [][NextSwitch]_vars

\* the dwell state of the router
DwellState == Detector(anchor, anchor_ts, last_click_ts)

\* the laser click of the latest iteration was on the launcher button of the
\* surface that is active now
JustStarted ==
    /\ step.op = "tick"
    /\ step.click
    /\ \/ LabelAt(step.fed) = "Kalibrierung" /\ calibration_active
       \/ LabelAt(step.fed) = "Testmodus" /\ test_mode.on
       \/ LabelAt(step.fed) \in AppNames /\ LabelAt(step.fed) = active_app

\* C36: an iteration that switches the surface (a start from the launcher, or
\* Escape) leaves in the router's dwell state what the detector's update of
\* the iteration's laser point has put there; and when the laser stays on the
\* launcher button whose click has just started a surface, the next frame
\* gives the next dwell click, which the started surface receives.
C36_SwitchKeepsDwell ==
    [][ step'.op = "tick" =>
          /\ (<<calibration_active, test_mode.on, active_app>>'
                  # <<calibration_active, test_mode.on, active_app>>) =>
                 DwellState' = IF step'.fed # NoPoint
                               THEN update(DwellState, dwell_ms, step'.fed, clock').d
                               ELSE DwellState
          /\ (/\ JustStarted
              /\ call'.tag = "none"
              /\ camera_ok
              /\ step'.frame = Detection(last_laser_point)) =>
                 /\ step'.click
                 /\ ClickDelivered(emitted')
                 /\ emitted'[Len(emitted')].position = step.fed
                 /\ calibration_active => step'.collected
      ]_vars

\* C37: the point and the area of a detection come from one contour of the
\* frame: a detection with a point has the area of a contour whose centroid
\* is the one smoothed into the state and the point returned, and a
\* detection without a point has the area 0.
C37_PointAndAreaOfOneContour ==
    step.op = "read" =>
        IF detection.point = NoPoint
        THEN detection.area = Whole(0)
        ELSE \E i \in 1..Len(contours) :
                 /\ contours[i].area = detection.area
                 /\ contours[i].centroid # NoPoint
                 /\ last_point = Smoothed(contours[i].centroid, step.before,
                                          settings.ema_alpha)
                 /\ detection.point = ReportedPoint(last_point)

\* the second contour of the frame is larger than the first, both pass the
\* filter: the loop has raised best_area, and the detection shows the place
\* and the area of the second
C37_Witness ==
    /\ step.op = "read"
    /\ step.before = NoPoint
    /\ Len(contours) = 2
    /\ Qualifying = {1, 2}
    /\ FracLess(contours[1].area, contours[2].area)
    /\ contours[1].centroid # contours[2].centroid
    /\ detection.point = contours[2].centroid
    /\ detection.area = contours[2].area

\* C38: in an iteration whose frame is a detection with a point, feed_point
\* is called once, with source "laser", on the detected point itself while
\* homography_data.homography is None and on apply_homography(matrix, point)
\* otherwise.
C38_FeedsMappedPoint ==
    [][ (/\ step'.op = "tick"
         /\ step'.frame.kind = "detection"
         /\ step'.frame.point # NoPoint) =>
            LET H == homography_data.homography
                point == step'.frame.point
            IN  /\ step'.fed = IF H = NoMatrix THEN point
                               ELSE apply_homography(H, point).point
                /\ step'.fed # NoPoint
                /\ last_pos' = step'.fed
                /\ source' = "laser"
                /\ emitted' # <<>>
                /\ \A i \in 1..Len(emitted') :
                       /\ emitted'[i].source = "laser"
                       /\ emitted'[i].position = step'.fed
      ]_vars
====
